---- MODULE Spec2Model ----
(***************************************************************************)
(* A model of libcli: BaseCLI.__init__ (the two-phase parse: a partial     *)
(* pre-parse for --verbose/--config, then the full parse), the common      *)
(* options and their terminal actions, subcommand registration and         *)
(* dispatch (BaseCmd), and help normalization.                             *)
(*                                                                         *)
(* The program is sequential.  A behaviour is one process: a CLI subclass  *)
(* (cls) is constructed on a command line (argv), the constructor walks    *)
(* through its steps (pc), and either returns (the application's main body *)
(* then runs), raises SystemExit (pc = "exit", exit_status), or dies of an *)
(* uncaught exception (pc = "raise").                                      *)
(*                                                                         *)
(* Python values are records [t |-> type name, v |-> payload]; a Python    *)
(* dict is a sequence of <<key, value>> pairs in insertion order; text is  *)
(* a TLA+ string.  argparse itself is modelled token by token as CPython   *)
(* 3.11 implements it, for command lines without abbreviated options,     *)
(* "--opt=value" forms and "--".  A TLA+ string cannot hold a backquote:   *)
(* the backquotes of the source's help texts are written as apostrophes.   *)
(***************************************************************************)
EXTENDS Integers, Sequences, FiniteSets, TLC

\* The longest command line explored, counted in arguments: a flag, or an
\* option together with its value.
MaxArgs == 2

-----------------------------------------------------------------------------
(* Python values *)

NoneV == [t |-> "NoneType", v |-> "None"]
IntV(n) == [t |-> "int", v |-> n]
StrV(s) == [t |-> "str", v |-> s]
BoolV(b) == [t |-> "bool", v |-> b]
PathV(s) == [t |-> "Path", v |-> s]
DictV(d) == [t |-> "dict", v |-> d]
\* a FileNotFoundError raised for path s
ErrV(s) == [t |-> "FileNotFoundError", v |-> s]
\* a BaseCLI instance
CliV(id) == [t |-> "BaseCLI", v |-> id]
\* the lambda bound by BaseCmd.add_subcommand_parser of subcommand name
CmdV(name) == [t |-> "function", v |-> name]

\* argparse.SUPPRESS
SUPPRESS == "==SUPPRESS=="
\* a help attribute that is None
NoHelp == "<None>"

\* bool(x)
Truthy(x) ==
    CASE x.t = "NoneType" -> FALSE
      [] x.t = "int" -> x.v # 0
      [] x.t = "str" -> x.v # ""
      [] x.t = "bool" -> x.v
      [] x.t = "dict" -> x.v # <<>>
      [] OTHER -> TRUE

-----------------------------------------------------------------------------
(* text *)

StartsWith(s, p) == Len(s) >= Len(p) /\ SubSeq(s, 1, Len(p)) = p
EndsWith(s, p) == Len(s) >= Len(p) /\ SubSeq(s, Len(s) - Len(p) + 1, Len(s)) = p

Lowers == "abcdefghijklmnopqrstuvwxyz"
Uppers == "ABCDEFGHIJKLMNOPQRSTUVWXYZ"

RECURSIVE MapChar(_, _, _, _)
MapChar(c, from, to, i) ==
    IF i > Len(from) THEN c
    ELSE IF SubSeq(from, i, i) = c THEN SubSeq(to, i, i)
    ELSE MapChar(c, from, to, i + 1)

\* str.upper() and str.lower() of one character
Upper(c) == MapChar(c, Lowers, Uppers, 1)
Lower(c) == MapChar(c, Uppers, Lowers, 1)

-----------------------------------------------------------------------------
(* dicts: sequences of <<key, value>> in insertion order *)

DictKeys(d) == [i \in 1..Len(d) |-> d[i][1]]
DictHas(d, k) == \E i \in 1..Len(d) : d[i][1] = k
DictGet(d, k, dflt) ==
    IF DictHas(d, k) THEN d[CHOOSE i \in 1..Len(d) : d[i][1] = k][2] ELSE dflt
DictSet(d, k, x) ==
    IF DictHas(d, k)
    THEN [i \in 1..Len(d) |-> IF d[i][1] = k THEN <<k, x>> ELSE d[i]]
    ELSE Append(d, <<k, x>>)

RECURSIVE DictUpdate(_, _)
\* d.update(e)
DictUpdate(d, e) ==
    IF e = <<>> THEN d
    ELSE DictUpdate(DictSet(d, e[1][1], e[1][2]), Tail(e))

SeqHas(s, x) == \E i \in 1..Len(s) : s[i] = x

-----------------------------------------------------------------------------
(* paths and the file system *)

\* pathlib.Path.home()
Home == "/home/u"

RECURSIVE PathOf(_)
\* str(Path(s)): leading "./" components are dropped
PathOf(s) == IF StartsWith(s, "./") /\ Len(s) > 2 THEN PathOf(SubSeq(s, 3, Len(s))) ELSE s

\* BaseCLI.hideuser(path) on str(path): the home directory replaced by ~
hideuser(path) ==
    IF ~StartsWith(path, Home) THEN path
    ELSE "~" \o SubSeq(path, Len(Home) + 1, Len(path))

\* str(Path(s).expanduser())
expanduser(s) ==
    IF s = "~" THEN Home
    ELSE IF StartsWith(s, "~/") THEN Home \o SubSeq(s, 2, Len(s))
    ELSE s

\* The config file of tests/test_config.py: a [myapp] table.
FileA == "/home/u/app.toml"
\* The file name of test_print_config_enoent: no such file.
FileB == "./cant/find/me"
\* Config files of other layouts: the same keys at the top level, without a
\* table; a top-level key beside the [myapp] table; a [myapp] table that sets
\* dist-name.
FileC == "/home/u/flat.toml"
FileD == "/home/u/mixed.toml"
FileE == "/home/u/dist.toml"
\* tomli.loads(Path(p).read_text()) for the files that exist
FileSystem ==
    << <<FileA, << <<"myapp", DictV(<< <<"name", StrV("Rumpelstiltskin")>>,
                                       <<"value", IntV(42)>> >>)>> >> >>,
       <<FileC, << <<"name", StrV("Rumpelstiltskin")>>, <<"value", IntV(42)>> >> >>,
       <<FileD, << <<"name", StrV("Top")>>,
                   <<"myapp", DictV(<< <<"value", IntV(42)>> >>)>> >> >>,
       <<FileE, << <<"myapp", DictV(<< <<"dist-name", StrV("app")>>,
                                       <<"value", IntV(42)>> >>)>> >> >> >>

Exists(p) == DictHas(FileSystem, p)

-----------------------------------------------------------------------------
(* str() and type conversion *)

Digits == "0123456789"

RECURSIVE IndexOf(_, _, _)
IndexOf(c, s, i) ==
    IF i > Len(s) THEN 0 ELSE IF SubSeq(s, i, i) = c THEN i ELSE IndexOf(c, s, i + 1)

RECURSIVE IsDigits(_)
IsDigits(s) ==
    IF s = "" THEN TRUE
    ELSE IndexOf(SubSeq(s, 1, 1), Digits, 1) > 0 /\ IsDigits(Tail(s))

RECURSIVE ToInt(_, _)
ToInt(s, acc) ==
    IF s = "" THEN acc
    ELSE ToInt(Tail(s), 10 * acc + IndexOf(SubSeq(s, 1, 1), Digits, 1) - 1)

RECURSIVE IntStr(_)
IntStr(n) ==
    IF n < 0 THEN "-" \o IntStr(0 - n)
    ELSE IF n < 10 THEN SubSeq(Digits, n + 1, n + 1)
    ELSE IntStr(n \div 10) \o SubSeq(Digits, (n % 10) + 1, (n % 10) + 1)

\* str(x)
PyStr(x) ==
    CASE x.t = "NoneType" -> "None"
      [] x.t = "int" -> IntStr(x.v)
      [] x.t = "bool" -> IF x.v THEN "True" ELSE "False"
      [] x.t = "FileNotFoundError" ->
            "[Errno 2] No such file or directory: '" \o x.v \o "'"
      [] x.t = "dict" -> "{...}"
      [] x.t \in {"BaseCLI", "function"} -> "<" \o x.t \o ">"
      [] OTHER -> x.v

\* type(old)(x): [ok |-> whether the call returns, val |-> its result]
TypeCall(tname, x) ==
    CASE tname = "NoneType" -> [ok |-> FALSE, val |-> NoneV]
      [] tname = "int" ->
            IF x.t = "int" THEN [ok |-> TRUE, val |-> x]
            ELSE IF x.t = "bool" THEN [ok |-> TRUE, val |-> IntV(IF x.v THEN 1 ELSE 0)]
            ELSE IF x.t = "str" /\ x.v # "" /\ IsDigits(x.v)
                 THEN [ok |-> TRUE, val |-> IntV(ToInt(x.v, 0))]
            ELSE [ok |-> FALSE, val |-> NoneV]
      [] tname = "str" -> [ok |-> TRUE, val |-> StrV(PyStr(x))]
      [] tname = "bool" -> [ok |-> TRUE, val |-> BoolV(Truthy(x))]
      [] tname = "Path" ->
            IF x.t \in {"str", "Path"} THEN [ok |-> TRUE, val |-> PathV(PathOf(x.v))]
            ELSE [ok |-> FALSE, val |-> NoneV]
      [] tname = "dict" ->
            IF x.t = "dict" THEN [ok |-> TRUE, val |-> x]
            ELSE [ok |-> FALSE, val |-> NoneV]
      [] OTHER -> [ok |-> FALSE, val |-> NoneV]

-----------------------------------------------------------------------------
(* argparse: parsers and actions *)

\* An argparse.Action.  kind is the action class; nargs is "0", "1", "?" or
\* "A..." (a sub-parsers action); type is "None", "Path" or "int"; default
\* is a value, or StrV(SUPPRESS) when the action sets no attribute.
Action(option_strings, dest, kind, nargs, type, default, const, help) ==
    [option_strings |-> option_strings, dest |-> dest, kind |-> kind, nargs |-> nargs,
     type |-> type, default |-> default, const |-> const, help |-> help]

\* argparse.ArgumentParser(prog=prog, add_help=add_help): the parser adds its
\* own -h/--help when add_help is true.  choices is the sub-parsers action's
\* table, a sequence of [name, help, parser] in registration order.
NewParser(prog, add_help) ==
    [prog |-> prog, add_help |-> add_help, formatter_class |-> "HelpFormatter",
     defaults |-> <<>>, choices |-> <<>>,
     actions |-> IF add_help
                 THEN <<Action(<<"-h", "--help">>, "help", "_HelpAction", "0", "None",
                               StrV(SUPPRESS), NoneV, "show this help message and exit")>>
                 ELSE <<>>]

\* parser.add_argument(...)
add_argument(parser, action) == [parser EXCEPT !.actions = Append(@, action)]

\* parser.set_defaults with keyword arguments kw
set_defaults_kw(parser, kw) == [parser EXCEPT !.defaults = DictUpdate(@, kw)]

\* parser.get_default(dest)
get_default(parser, dest) ==
    LET hit == {i \in 1..Len(parser.actions) :
                   parser.actions[i].dest = dest /\ parser.actions[i].default # NoneV}
    IN  IF hit # {} THEN parser.actions[CHOOSE i \in hit : \A j \in hit : i <= j].default
        ELSE DictGet(parser.defaults, dest, NoneV)

IsOptionString(tok) == tok # "" /\ SubSeq(tok, 1, 1) = "-"

\* the index in parser.actions of the option that tok names, or 0
FindOption(parser, tok) ==
    LET hit == {i \in 1..Len(parser.actions) : SeqHas(parser.actions[i].option_strings, tok)}
    IN  IF hit = {} THEN 0 ELSE CHOOSE i \in hit : TRUE

\* the indexes in parser.actions of the positionals, in order
Positionals(parser) ==
    LET F[i \in 0..Len(parser.actions)] ==
            IF i = 0 THEN <<>>
            ELSE IF parser.actions[i].option_strings = <<>> THEN Append(F[i - 1], i)
            ELSE F[i - 1]
    IN  F[Len(parser.actions)]

\* The namespace parse_known_args starts from: every action's default that is
\* not SUPPRESS, then the parser's own defaults, for names not yet set.
InitialNamespace(parser) ==
    LET F[i \in 0..Len(parser.actions)] ==
            IF i = 0 THEN <<>>
            ELSE LET a == parser.actions[i]
                 IN  IF a.dest = SUPPRESS \/ a.default = StrV(SUPPRESS) \/ DictHas(F[i - 1], a.dest)
                     THEN F[i - 1]
                     ELSE DictSet(F[i - 1], a.dest, a.default)
        G[j \in 0..Len(parser.defaults)] ==
            IF j = 0 THEN F[Len(parser.actions)]
            ELSE IF DictHas(G[j - 1], parser.defaults[j][1]) THEN G[j - 1]
                 ELSE DictSet(G[j - 1], parser.defaults[j][1], parser.defaults[j][2])
    IN  G[Len(parser.defaults)]

\* Defaults that are still strings when the parse ends are converted by the
\* action's type.
ConvertDefaults(parser, ns, seen) ==
    LET F[i \in 0..Len(parser.actions)] ==
            IF i = 0 THEN ns
            ELSE LET a == parser.actions[i]
                 IN  IF i \notin seen /\ a.type = "Path" /\ a.default.t = "str"
                        /\ a.default # StrV(SUPPRESS)
                        /\ DictGet(F[i - 1], a.dest, NoneV) = a.default
                     THEN DictSet(F[i - 1], a.dest, TypeCall("Path", a.default).val)
                     ELSE F[i - 1]
    IN  F[Len(parser.actions)]

-----------------------------------------------------------------------------
(* the actions of the common options *)

\* What a parse hands back: the namespace and the unrecognised arguments when
\* it returns (exit = FALSE); the exit status when an action or an error ended
\* the process (exit = TRUE); out is what was printed.
Parsed(ns, extras) == [exit |-> FALSE, status |-> 0, ns |-> ns, extras |-> extras, out |-> <<>>]
\* A variant of Exited in which the action prints and returns to the parse
\* instead of ending the process.
Exited_returning(status, out, ns) ==
    [exit |-> FALSE, status |-> status, ns |-> ns, extras |-> <<>>, out |-> out]

Exited(status, out, ns) ==
    [exit |-> TRUE, status |-> status, ns |-> ns, extras |-> <<>>, out |-> out]

\* parser.error(message): usage and message on stderr, exit status 2
\* the exit of a handler that has assigned to the parser before it printed:
\* parser is the parser it leaves behind
ExitedWith(status, out, ns, parser) ==
    [exit |-> TRUE, status |-> status, ns |-> ns, extras |-> <<>>, out |-> out,
     parser |-> parser]

ParserError(parser, message, ns) ==
    Exited(2, <<[what |-> "error", prog |-> parser.prog, data |-> message]>>, ns)

\* parser.format_help(): the options that are not suppressed, with their help
format_help(parser) ==
    LET F[i \in 0..Len(parser.actions)] ==
            IF i = 0 THEN <<>>
            ELSE LET a == parser.actions[i]
                 IN  IF a.help = SUPPRESS THEN F[i - 1]
                     ELSE Append(F[i - 1], <<a.option_strings, a.dest, a.help>>)
    IN  F[Len(parser.actions)]

Printed(what, parser) ==
    [what |-> what, prog |-> parser.prog, data |-> format_help(parser)]

RECURSIVE Replace(_, _, _)
\* s.replace(a, b) for one-character a and b
Replace(s, a, b) ==
    IF s = "" THEN ""
    ELSE (IF SubSeq(s, 1, 1) = a THEN b ELSE SubSeq(s, 1, 1)) \o Replace(Tail(s), a, b)

\* BaseCLI.distname
distname(cli, parser) ==
    LET d == DictGet(cli.config, "dist-name", NoneV)
        n == DictGet(cli.config, "config-name", NoneV)
    IN  IF Truthy(d) THEN d ELSE IF Truthy(n) THEN n ELSE StrV(parser.prog)

\* A variant of register_python_argcomplete that reports success for every
\* shell name.
register_python_argcomplete_any_shell(shell) == 0

\* register-python-argcomplete -s SHELL PROG: its return code
register_python_argcomplete(shell) ==
    IF shell \in {"bash", "fish", "tcsh"} THEN 0 ELSE 2

RECURSIVE upper(_)
\* str.upper()
upper(text) == IF text = "" THEN "" ELSE Upper(SubSeq(text, 1, 1)) \o upper(SubSeq(text, 2, Len(text)))

\* _print_help of LongHelpAction and of LongMarkdownHelpAction: what they print
\* for one parser, the title (the text that LongHelpAction centers in a line of
\* dashes, or the Markdown heading with its atx) and the help
_print_help(what, parser, atx) ==
    [what |-> what, prog |-> parser.prog, data |-> format_help(parser),
     title |-> IF what = "md-help" THEN atx \o " " \o parser.prog
               ELSE " " \o upper(parser.prog) \o " "]

\* A variant of LongHelp that prints the subparsers before the parser.
LongHelp_subcommands_first(what, parser) ==
    [i \in 1..Len(parser.choices) |-> _print_help(what, parser.choices[i].parser, "##")]
        \o <<_print_help(what, parser, "#")>>

\* LongHelpAction.__call__ and LongMarkdownHelpAction.__call__: the parser's
\* help, then the help of each subparser in the order of action.choices
LongHelp(what, parser) ==
    <<_print_help(what, parser, "#")>> \o
    [i \in 1..Len(parser.choices) |-> _print_help(what, parser.choices[i].parser, "##")]

\* parser.formatter_class = MarkdownHelpFormatter (MarkdownHelpAction)
MarkdownFormatted(parser) == [parser EXCEPT !.formatter_class = "MarkdownHelpFormatter"]

\* A variant of RawFormatted that leaves the subparsers as they are.
RawFormatted_root_only(parser) ==
    [parser EXCEPT !.formatter_class = "RawDescriptionHelpFormatter"]

\* formatter_class = argparse.RawDescriptionHelpFormatter for the parser and
\* each of its subparsers (LongMarkdownHelpAction)
RawFormatted(parser) ==
    [parser EXCEPT
        !.formatter_class = "RawDescriptionHelpFormatter",
        !.choices = [i \in 1..Len(@) |->
                        [@[i] EXCEPT !.parser.formatter_class = "RawDescriptionHelpFormatter"]]]

\* PrintConfigAction.__call__: the dict it prints
PrintConfig(cli, namespace) ==
    LET F[i \in 0..Len(cli.config)] ==
            IF i = 0 THEN <<>>
            ELSE LET name == cli.config[i][1]
                     value == DictGet(namespace, Replace(name, "-", "_"), cli.config[i][2])
                 IN  IF SeqHas(cli.exclude_print_config, name) THEN F[i - 1]
                     ELSE DictSet(F[i - 1], name,
                                  IF value.t \in {"int", "bool", "str"} THEN value
                                  ELSE StrV(PyStr(value)))
        config == F[Len(cli.config)]
        section == DictGet(cli.config, "config-name", NoneV)
    IN  IF section # NoneV THEN << <<PyStr(section), DictV(config)>> >> ELSE config

\* Action.__call__(parser, namespace, values) of each action class: the
\* namespace afterwards, or the exit it ends the process with.
TakeAction(parser, a, values, ns, cli) ==
    CASE a.kind = "store" ->
            IF a.type = "int" /\ ~(values[1] # "" /\ IsDigits(values[1]))
            THEN ParserError(parser, "invalid int value", ns)
            ELSE Parsed(DictSet(ns, a.dest,
                                CASE a.type = "int" -> IntV(ToInt(values[1], 0))
                                  [] a.type = "Path" -> PathV(PathOf(values[1]))
                                  [] OTHER -> StrV(values[1])), <<>>)
      [] a.kind = "store_true" -> Parsed(DictSet(ns, a.dest, a.const), <<>>)
      [] a.kind = "count" ->
            LET old == DictGet(ns, a.dest, NoneV)
            IN  Parsed(DictSet(ns, a.dest, IntV((IF old = NoneV THEN 0 ELSE old.v) + 1)), <<>>)
      [] a.kind = "version" ->
            Exited(0, <<[what |-> "version", prog |-> parser.prog, data |-> a.const]>>, ns)
      [] a.kind \in {"_HelpAction", "BaseHelpAction"} ->
            Exited(0, <<Printed("help", parser)>>, ns)
      [] a.kind = "LongHelpAction" -> Exited(0, LongHelp("long-help", parser), ns)
      [] a.kind = "MarkdownHelpAction" ->
            ExitedWith(0, <<Printed("md-help", MarkdownFormatted(parser))>>, ns,
                       MarkdownFormatted(parser))
      [] a.kind = "LongMarkdownHelpAction" ->
            ExitedWith(0, LongHelp("md-help", RawFormatted(parser)), ns, RawFormatted(parser))
      [] a.kind = "PrintConfigAction" ->
            Exited(0, <<[what |-> "print-config", prog |-> parser.prog,
                         data |-> PrintConfig(cli, ns)]>>, ns)
      [] a.kind = "PrintUrlAction" ->
            Exited(0, <<[what |-> "print-url", prog |-> parser.prog,
                         data |-> distname(cli, parser)]>>, ns)
      [] a.kind = "DebugAction" ->
            Exited(0, <<[what |-> "debug", prog |-> parser.prog, data |-> ns]>>, ns)
      [] a.kind = "CompletionAction" ->
            LET shell == IF values # <<>> /\ values[1] # "" THEN values[1]
                         ELSE DictGet(ns, "shell", NoneV).v
            IN  Exited(register_python_argcomplete(shell),
                       <<[what |-> "completion", prog |-> parser.prog, data |-> shell]>>, ns)

-----------------------------------------------------------------------------
(* argparse: parsing *)

\* the record of parser.choices registered under name, as a set
Choice(parser, name) == {i \in 1..Len(parser.choices) : parser.choices[i].name = name}

RECURSIVE Consume(_, _, _, _, _, _, _)
\* ArgumentParser._parse_known_args from argument i on: options are taken
\* where they stand, with the values their nargs asks for; other arguments go
\* to the next positional that has not been filled; a sub-parsers action takes
\* every remaining argument and hands them to the chosen sub-parser; what
\* nobody takes is collected in extras.  seen holds the indexes of the actions
\* taken so far.
Consume(parser, toks, i, ns, extras, seen, cli) ==
    IF i > Len(toks)
    THEN IF \E k \in 1..Len(parser.actions) :
                /\ k \notin seen
                /\ parser.actions[k].option_strings = <<>>
                /\ parser.actions[k].nargs = "1"
         THEN ParserError(parser, "the following arguments are required", ns)
         ELSE Parsed(ConvertDefaults(parser, ns, seen), extras)
    ELSE
    LET tok == toks[i]
        hasArg == i < Len(toks) /\ ~IsOptionString(toks[i + 1])
    IN
    IF IsOptionString(tok)
    THEN LET k == FindOption(parser, tok)
         IN  IF k = 0
             THEN Consume(parser, toks, i + 1, ns, Append(extras, tok), seen, cli)
             ELSE LET a == parser.actions[k]
                      takes == a.nargs = "1" \/ (a.nargs = "?" /\ hasArg)
                      step == TakeAction(parser, a,
                                         IF takes THEN <<toks[i + 1]>> ELSE <<>>, ns, cli)
                  IN  IF a.nargs = "1" /\ ~hasArg
                      THEN ParserError(parser, "expected one argument", ns)
                      ELSE IF step.exit THEN step
                      ELSE Consume(parser, toks, IF takes THEN i + 2 ELSE i + 1,
                                   step.ns, extras, seen \cup {k}, cli)
    ELSE LET free == {k \in 1..Len(parser.actions) :
                         k \notin seen /\ parser.actions[k].option_strings = <<>>}
         IN  IF free = {}
             THEN Consume(parser, toks, i + 1, ns, Append(extras, tok), seen, cli)
             ELSE
             LET k == CHOOSE x \in free : \A y \in free : x <= y
                 a == parser.actions[k]
             IN  IF a.nargs = "A..."
                 THEN IF Choice(parser, tok) = {}
                      THEN ParserError(parser, "invalid choice", ns)
                      ELSE LET subparser == parser.choices[CHOOSE c \in Choice(parser, tok) : TRUE].parser
                               rest == SubSeq(toks, i + 1, Len(toks))
                               sub == Consume(subparser, rest, 1,
                                              InitialNamespace(subparser), <<>>, {}, cli)
                           IN  IF sub.exit THEN sub
                               ELSE Consume(parser, toks, Len(toks) + 1,
                                            DictUpdate(ns, sub.ns), extras \o sub.extras,
                                            seen \cup {k}, cli)
                 ELSE LET step == TakeAction(parser, a, <<tok>>, ns, cli)
                      IN  IF step.exit THEN step
                          ELSE Consume(parser, toks, i + 1, step.ns, extras, seen \cup {k}, cli)

\* parser.parse_known_args(args)
parse_known_args(parser, args, cli) ==
    Consume(parser, args, 1, InitialNamespace(parser), <<>>, {}, cli)

\* A variant of parse_args that drops the unrecognised arguments, as
\* parse_known_args does.
parse_args_dropping_extras(parser, args, cli) == parse_known_args(parser, args, cli)

\* parser.parse_args(args): unrecognised arguments are an error, reported
\* when the whole command line has been parsed
parse_args(parser, args, cli) ==
    LET r == parse_known_args(parser, args, cli)
    IN  IF ~r.exit /\ r.extras # <<>>
        THEN ParserError(parser, "unrecognized arguments", r.ns)
        ELSE r

-----------------------------------------------------------------------------
(* BaseCLI: help text *)

\* BaseCLI.help_first_char and BaseCLI.help_line_ending
help_first_char == "upper"
help_line_ending == "."

\* A variant of _normalize_help_text that capitalises and appends nothing.
_normalize_help_text_unended(text) ==
    IF text # NoHelp /\ text # "" /\ text # SUPPRESS
    THEN Upper(SubSeq(text, 1, 1)) \o SubSeq(text, 2, Len(text))
    ELSE text

\* A variant of _normalize_help_text that appends the line ending without
\* looking for one.
_normalize_help_text_ending_again(text) ==
    IF text # NoHelp /\ text # "" /\ text # SUPPRESS
    THEN LET ended == text \o help_line_ending
         IN  IF help_first_char = "upper"
             THEN Upper(SubSeq(ended, 1, 1)) \o SubSeq(ended, 2, Len(ended))
             ELSE IF help_first_char = "lower"
             THEN Lower(SubSeq(ended, 1, 1)) \o SubSeq(ended, 2, Len(ended))
             ELSE ended
    ELSE text

\* BaseCLI._normalize_help_text
_normalize_help_text(text) ==
    IF text # NoHelp /\ text # "" /\ text # SUPPRESS
    THEN LET ended == IF help_line_ending # "" /\ ~EndsWith(text, help_line_ending)
                      THEN text \o help_line_ending ELSE text
         IN  IF help_first_char = "upper"
             THEN Upper(SubSeq(ended, 1, 1)) \o SubSeq(ended, 2, Len(ended))
             ELSE IF help_first_char = "lower"
             THEN Lower(SubSeq(ended, 1, 1)) \o SubSeq(ended, 2, Len(ended))
             ELSE ended
    ELSE text

\* add_default_to_help without the test for the line ending: the default
\* always goes to the end of the help
add_default_to_help_at_end(parser, k) ==
    LET arg == parser.actions[k]
        default == get_default(parser, arg.dest)
        shown == IF arg.const.t = "bool" /\ ~arg.const.v
                 THEN PyStr(BoolV(~Truthy(default)))
                 ELSE LET d == PyStr(default)
                      IN  IF StartsWith(d, Home) THEN "~" \o SubSeq(d, Len(Home) + 1, Len(d))
                          ELSE d
        text == " (default: '" \o shown \o "')"
    IN  IF default = NoneV THEN [ok |-> TRUE, parser |-> parser]
        ELSE IF arg.help = NoHelp THEN [ok |-> FALSE, parser |-> parser]
        ELSE [ok |-> TRUE, parser |-> [parser EXCEPT !.actions[k].help = @ \o text]]

\* BaseCLI.add_default_to_help(arg, parser) for arg = parser.actions[k]:
\* [ok |-> whether it returns, parser |-> the parser afterwards].  Adding text
\* to a help that is None raises TypeError.
add_default_to_help(parser, k) ==
    LET arg == parser.actions[k]
        default == get_default(parser, arg.dest)
        shown == IF arg.const.t = "bool" /\ ~arg.const.v
                 THEN PyStr(BoolV(~Truthy(default)))
                 ELSE LET d == PyStr(default)
                      IN  IF StartsWith(d, Home) THEN "~" \o SubSeq(d, Len(Home) + 1, Len(d))
                          ELSE d
        text == " (default: '" \o shown \o "')"
    IN  IF default = NoneV THEN [ok |-> TRUE, parser |-> parser]
        ELSE IF arg.help # NoHelp /\ arg.help # "" /\ EndsWith(arg.help, help_line_ending)
        THEN [ok |-> TRUE,
              parser |-> [parser EXCEPT !.actions[k].help =
                             SubSeq(@, 1, Len(@) - Len(help_line_ending)) \o text
                                 \o help_line_ending]]
        ELSE IF arg.help = NoHelp THEN [ok |-> FALSE, parser |-> parser]
        ELSE [ok |-> TRUE, parser |-> [parser EXCEPT !.actions[k].help = @ \o text]]

-----------------------------------------------------------------------------
(* BaseCLI: building the parser *)

\* A variant of ArgumentParser that passes the caller's add_help on to
\* argparse.
ArgumentParser_keeping_add_help(self, prog, add_help) ==
    set_defaults_kw(NewParser(prog, add_help), << <<"cli", CliV(self)>> >>)

\* BaseCLI.ArgumentParser with keyword arguments prog and add_help, called on
\* CLI instance self: add_help is forced
\* off and the parser's defaults point back to the CLI.
ArgumentParser(self, prog, add_help) ==
    set_defaults_kw(NewParser(prog, FALSE), << <<"cli", CliV(self)>> >>)

\* BaseCLI._add_verbose_option
_add_verbose_option(parser) ==
    add_argument(parser,
        Action(<<"-v", "--verbose">>, "verbose", "count", "0", "None", IntV(0), NoneV,
               "'-v' for detailed output and '-vv' for more detailed"))

\* BaseCLI._add_version_option: the version is "0.0.0" when the distribution
\* is not installed
_add_version_option(parser) ==
    add_argument(parser,
        Action(<<"-V", "--version">>, "version", "version", "0", "None", StrV(SUPPRESS),
               StrV("0.0.0"), "print version number and exit"))

\* BaseCLI._add_config_option with config = self.config
_add_config_option(parser, config) ==
    LET p == add_argument(parser,
                 Action(<<"--config">>, "config_file", "store", "1", "Path",
                        DictGet(config, "config-file", NoneV), NoneV, "use config 'FILE'"))
    IN  add_default_to_help(p, Len(p.actions)).parser

\* DebugOption.__init__
DebugOption(parser) ==
    add_argument(parser,
        Action(<<"-X">>, "X", "DebugAction", "0", "None", StrV(SUPPRESS), NoneV, SUPPRESS))

\* PrintConfigOption.__init__
PrintConfigOption(parser) ==
    add_argument(parser,
        Action(<<"--print-config">>, "print_config", "PrintConfigAction", "0", "None",
               StrV(SUPPRESS), NoneV, "print effective config and exit"))

\* PrintUrlOption.__init__
PrintUrlOption(parser) ==
    add_argument(parser,
        Action(<<"--print-url">>, "print_url", "PrintUrlAction", "0", "None",
               StrV(SUPPRESS), NoneV, "print project url and exit"))

\* CompletionOption.__init__
CompletionOption(parser) ==
    LET p == add_argument(parser,
                 Action(<<"--completion">>, "shell", "CompletionAction", "?", "None",
                        StrV("bash"), NoneV, "Print completion scripts for 'SHELL' and exit"))
    IN  add_default_to_help(p, Len(p.actions)).parser

\* A variant of _add_common_options that leaves --print-url out.
_add_common_options_without_print_url(parser, add_parser, config) ==
    LET p1 == add_argument(DebugOption(parser),
                  Action(<<"-h", "--help">>, "help", "BaseHelpAction", "0", "None",
                         StrV(SUPPRESS), NoneV, "show this help message and exit"))
        p2 == IF add_parser
              THEN add_argument(p1,
                       Action(<<"-H", "--long-help">>, "long_help", "LongHelpAction", "0",
                              "None", StrV(SUPPRESS), NoneV,
                              "show help for all commands and exit"))
              ELSE p1
        p3 == add_argument(p2,
                  Action(<<"--md-help">>, "md_help",
                         IF add_parser THEN "LongMarkdownHelpAction" ELSE "MarkdownHelpAction",
                         "0", "None", StrV(SUPPRESS), NoneV, SUPPRESS))
        p4 == _add_version_option(_add_verbose_option(p3))
        p5 == IF Truthy(DictGet(config, "config-file", NoneV))
              THEN _add_config_option(p4, config) ELSE p4
    IN  CompletionOption(PrintConfigOption(p5))

\* A variant of _add_common_options that installs -H/--long-help on every
\* parser, with or without subcommands.
_add_common_options_always_long_help(parser, add_parser, config) ==
    LET p1 == add_argument(DebugOption(parser),
                  Action(<<"-h", "--help">>, "help", "BaseHelpAction", "0", "None",
                         StrV(SUPPRESS), NoneV, "show this help message and exit"))
        p2 == add_argument(p1,
                  Action(<<"-H", "--long-help">>, "long_help", "LongHelpAction", "0",
                         "None", StrV(SUPPRESS), NoneV,
                         "show help for all commands and exit"))
        p3 == add_argument(p2,
                  Action(<<"--md-help">>, "md_help",
                         IF add_parser THEN "LongMarkdownHelpAction" ELSE "MarkdownHelpAction",
                         "0", "None", StrV(SUPPRESS), NoneV, SUPPRESS))
        p4 == _add_version_option(_add_verbose_option(p3))
        p5 == IF Truthy(DictGet(config, "config-file", NoneV))
              THEN _add_config_option(p4, config) ELSE p4
    IN  CompletionOption(PrintUrlOption(PrintConfigOption(p5)))

\* BaseCLI._add_common_options(parser), with add_parser = whether
\* self.add_parser is set and config = self.config
_add_common_options(parser, add_parser, config) ==
    LET p1 == DebugOption(parser)
        p2 == add_argument(p1,
                  Action(<<"-h", "--help">>, "help", "BaseHelpAction", "0", "None",
                         StrV(SUPPRESS), NoneV, "show this help message and exit"))
        p3 == IF add_parser
              THEN add_argument(p2,
                       Action(<<"-H", "--long-help">>, "long_help", "LongHelpAction", "0",
                              "None", StrV(SUPPRESS), NoneV,
                              "show help for all commands and exit"))
              ELSE p2
        p4 == add_argument(p3,
                  Action(<<"--md-help">>, "md_help",
                         IF add_parser THEN "LongMarkdownHelpAction" ELSE "MarkdownHelpAction",
                         "0", "None", StrV(SUPPRESS), NoneV, SUPPRESS))
        p5 == _add_version_option(_add_verbose_option(p4))
        p6 == IF Truthy(DictGet(config, "config-file", NoneV))
              THEN _add_config_option(p5, config) ELSE p5
    IN  CompletionOption(PrintUrlOption(PrintConfigOption(p6)))

\* the formatter _finalize installs when NOCOLOR is not set
formatter_class == "ColorHelpFormatter"

\* the help normalization of _finalize over one parser's own actions
NormalizeActions(p) ==
    [p EXCEPT !.actions = [i \in 1..Len(p.actions) |->
                              [p.actions[i] EXCEPT !.help = _normalize_help_text(@)]]]

\* BaseCLI._finalize: the formatter and the help of the root parser's
\* actions, of the sub-parsers action's command list and of every
\* sub-parser's actions
_finalize(parser) ==
    LET root == NormalizeActions(
                    [parser EXCEPT !.formatter_class =
                        IF @ = "HelpFormatter" THEN formatter_class ELSE @])
        \* the sub-parsers action itself keeps its help
        kept == [root EXCEPT !.actions = [i \in 1..Len(parser.actions) |->
                    IF parser.actions[i].kind = "_SubParsersAction"
                    THEN parser.actions[i] ELSE root.actions[i]]]
    IN  [kept EXCEPT !.choices = [i \in 1..Len(parser.choices) |->
            [name |-> parser.choices[i].name,
             help |-> _normalize_help_text(parser.choices[i].help),
             parser |-> NormalizeActions(
                 [parser.choices[i].parser EXCEPT !.formatter_class =
                     IF @ = "HelpFormatter" THEN formatter_class ELSE @])]]]

-----------------------------------------------------------------------------
(* BaseCmd: subcommands *)

\* BaseCLI._init_subcommands followed by parser.set_defaults(cmd=None): the
\* sub-parsers action is a positional that takes all remaining arguments
_init_subcommands(parser) ==
    set_defaults_kw(
        add_argument(parser,
            Action(<<>>, SUPPRESS, "_SubParsersAction", "A...", "None", NoneV, NoneV, NoHelp)),
        << <<"cmd", NoneV>> >>)

\* A variant of add_subcommand_parser that binds every sub-parser's cmd to
\* the first subcommand's run.
add_subcommand_parser_first_run(prog, name) ==
    set_defaults_kw(NewParser(prog \o " " \o name, TRUE),
                    << <<"cmd", CmdV("first")>>, <<"prog", StrV(name)>> >>)

\* BaseCmd.add_subcommand_parser(name, help=...) on a CLI whose parser is
\* prog: the sub-parser, which keeps argparse's own -h/--help, with its cmd
\* default bound to this subcommand's run
add_subcommand_parser(prog, name) ==
    set_defaults_kw(NewParser(prog \o " " \o name, TRUE),
                    << <<"cmd", CmdV(name)>>, <<"prog", StrV(name)>> >>)

\* FirstCmd.init_command (tests/test_basecmd.py)
FirstCmd(prog) ==
    [name |-> "first", help |-> "help for the 'first' command",
     parser |-> add_argument(add_subcommand_parser(prog, "first"),
                    Action(<<"--first-opt">>, "first_opt", "store", "1", "None", NoneV, NoneV,
                           "help for '--first-opt'"))]

\* SecondCmd.init_command (tests/test_basecmd.py)
SecondCmd(prog) ==
    LET p1 == add_argument(add_subcommand_parser(prog, "second"),
                  Action(<<"--second-opt">>, "second_opt", "store", "1", "None", NoneV, NoneV,
                         "help for '--second-opt'"))
        p2 == add_argument(p1,
                  Action(<<"--path-opt">>, "path_opt", "store", "1", "None",
                         PathV(Home \o "/username/should/be/masked"), NoneV,
                         "help for '--path-opt'."))
        p3 == add_default_to_help(p2, Len(p2.actions)).parser
        p4 == add_argument(p3,
                  Action(<<"--bool-opt">>, "bool_opt", "store_true", "0", "None",
                         BoolV(TRUE), BoolV(TRUE), "help for '--bool-opt'"))
    IN  [name |-> "second", help |-> "help for the 'second' command",
         parser |-> add_default_to_help(p4, Len(p4.actions)).parser]

\* WumpusMoveCmd.init_command (tests/wumpus4/move.py)
WumpusMoveCmd(prog) ==
    [name |-> "move", help |-> "help for the 'move' command",
     parser |-> add_argument(add_subcommand_parser(prog, "move"),
                    Action(<<>>, "room", "store", "1", "int", NoneV, NoneV,
                           "help for 'ROOM'"))]

\* WumpusShootCmd.init_command (tests/wumpus4/shoot.py)
WumpusShootCmd(prog) ==
    [name |-> "shoot", help |-> "help for the 'shoot' command",
     parser |-> add_argument(add_subcommand_parser(prog, "shoot"),
                    Action(<<>>, "room", "store", "1", "int", NoneV, NoneV,
                           "help for 'ROOM'"))]

\* BaseCLI.add_subcommand_classes([FirstCmd, SecondCmd, WumpusMoveCmd])
add_subcommand_classes(parser) ==
    [_init_subcommands(parser) EXCEPT
        !.choices = <<FirstCmd(parser.prog), SecondCmd(parser.prog),
                      WumpusMoveCmd(parser.prog)>>]

\* BaseCmd._promote_options(run) of the subcommand bound to callback cmd, on a
\* CLI whose options are `options`: the subcommand's options, and its run
\* cmd_class(self) for one attribute of a module, [name, value]: a command
\* class ("move", "shoot") registers its subcommand, a class without
\* init_command ("base") registers nothing, anything that is no class
\* ("value") raises TypeError.  r is [ok, parser, made]: whether no exception
\* was raised so far, the parser, the names instantiated.
Instantiate(r, attr) ==
    IF ~r.ok THEN r
    ELSE IF attr.value = "value" THEN [r EXCEPT !.ok = FALSE]
    ELSE [ok |-> TRUE,
          made |-> Append(r.made, attr.name),
          parser |-> CASE attr.value = "move" ->
                            [r.parser EXCEPT !.choices = Append(@, WumpusMoveCmd(r.parser.prog))]
                       [] attr.value = "shoot" ->
                            [r.parser EXCEPT !.choices = Append(@, WumpusShootCmd(r.parser.prog))]
                       [] OTHER -> r.parser]

RECURSIVE InstantiateMatching(_, _, _, _)
\* the loop over dir(module) in add_subcommand_modules; prefix and suffix are
\* "" for None
InstantiateMatching(r, names, prefix, suffix) ==
    IF names = <<>> \/ ~r.ok THEN r
    ELSE LET name == Head(names).name
         IN  IF \/ name = prefix \o suffix
                \/ prefix # "" /\ ~StartsWith(name, prefix)
                \/ suffix # "" /\ ~EndsWith(name, suffix)
             THEN InstantiateMatching(r, Tail(names), prefix, suffix)
             ELSE InstantiateMatching(Instantiate(r, Head(names)), Tail(names), prefix,
                                      suffix)

RECURSIVE LoadModules(_, _, _, _)
\* the loop over the modules of the package in add_subcommand_modules
LoadModules(r, modules, prefix, suffix) ==
    IF modules = <<>> \/ ~r.ok THEN r
    ELSE LET module == Head(modules)
             Command == SelectSeq(module, LAMBDA attr : attr.name = "Command")
         IN  LoadModules(IF prefix = "" /\ suffix = "" /\ Command # <<>>
                         THEN Instantiate(r, Command[1])
                         ELSE InstantiateMatching(r, module, prefix, suffix),
                         Tail(modules), prefix, suffix)

\* BaseCLI.add_subcommand_modules(modname, prefix, suffix), modules being the
\* modules of the package modname, each the sequence of its attributes in the
\* order of dir()
add_subcommand_modules(parser, modules, prefix, suffix) ==
    LoadModules([ok |-> TRUE, parser |-> _init_subcommands(parser), made |-> <<>>],
                modules, prefix, suffix)

_promote_options(cmd, options) == [name |-> cmd.v, options |-> options]

-----------------------------------------------------------------------------
(* BaseCLI: configuration *)

\* base_config of BaseCLI.init_config
base_config ==
    << <<"config-file", NoneV>>, <<"config-name", NoneV>>, <<"dist-name", NoneV>>,
       <<"verbose", IntV(0)>> >>

\* The loop of init_config over the keys of the merged configuration: each
\* key not yet in exclude_print_config is appended to it.
ExcludeBase(exclude, config) ==
    LET F[i \in 0..Len(config)] ==
            IF i = 0 THEN exclude
            ELSE IF SeqHas(F[i - 1], config[i][1]) THEN F[i - 1]
                 ELSE Append(F[i - 1], config[i][1])
    IN  F[Len(config)]

\* A variant of init_logging without the init_logging_called guard.
init_logging_every_time(logging, verbose) ==
    [init_logging_called |-> TRUE,
     others |-> logging.others,
     level |-> IF logging.init_logging_called \/ logging.others # {} THEN logging.level
               ELSE <<"WARNING", "INFO", "DEBUG">>[(IF verbose < 2 THEN verbose ELSE 2) + 1],
     loguru |-> <<"INFO", "DEBUG", "TRACE">>[(IF verbose < 2 THEN verbose ELSE 2) + 1]]

\* BaseCLI.init_logging(verbose): the levels of logging and of loguru.
\* init_logging_called is the attribute as the class under construction sees
\* it, others the other classes that have set theirs (self.__class__); once
\* some class has called logging.basicConfig the root logger has a handler
\* and a later basicConfig leaves its level alone.
init_logging(logging, verbose) ==
    IF ~logging.init_logging_called
    THEN [init_logging_called |-> TRUE,
          others |-> logging.others,
          level |-> IF logging.others # {} THEN logging.level
                    ELSE <<"WARNING", "INFO", "DEBUG">>[(IF verbose < 2 THEN verbose ELSE 2) + 1],
          loguru |-> <<"INFO", "DEBUG", "TRACE">>[(IF verbose < 2 THEN verbose ELSE 2) + 1]]
    ELSE logging

\* The loop of _update_config_from_file over the loaded items: a value whose
\* name is already configured is converted to the type of the configured
\* value.  [ok |-> no conversion raised, config |-> the converted items]
ConvertLoaded(loaded, config) ==
    LET F[i \in 0..Len(loaded)] ==
            IF i = 0 THEN [ok |-> TRUE, config |-> loaded]
            ELSE LET name == loaded[i][1]
                     c == TypeCall(DictGet(config, name, NoneV).t, loaded[i][2])
                 IN  IF ~F[i - 1].ok THEN F[i - 1]
                     ELSE IF ~DictHas(config, name) THEN F[i - 1]
                     ELSE IF ~c.ok THEN [ok |-> FALSE, config |-> F[i - 1].config]
                     ELSE [ok |-> TRUE, config |-> DictSet(F[i - 1].config, name, c.val)]
    IN  F[Len(loaded)]

\* BaseCLI.debug(text): printed when the options' verbose is above 1
debug(options, text) ==
    IF DictGet(options, "verbose", IntV(0)).v > 1
    THEN <<[what |-> "DEBUG", prog |-> "", data |-> text]>> ELSE <<>>

\* A variant of _update_config_from_file that reads the file and merges
\* nothing of it into the configuration.
_update_config_from_file_unmerged(config, options) ==
    LET config_file == DictGet(options, "config_file", NoneV)
        path == expanduser(config_file.v)
    IN  IF Truthy(config_file) /\ ~Exists(path)
           /\ config_file # DictGet(config, "config-file", NoneV)
        THEN [raised |-> FALSE, config |-> DictSet(config, "config-file", ErrV(path)),
              out |-> debug(options, "reading config-file")]
        ELSE [raised |-> FALSE, config |-> config, out |-> <<>>]

\* A variant of _update_config_from_file that ignores every file it cannot
\* find, whether or not it is the declared default.
_update_config_from_file_ignoring(config, options) ==
    LET config_file == DictGet(options, "config_file", NoneV)
        path == expanduser(config_file.v)
        loaded == DictGet(FileSystem, path, <<>>)
        section == DictGet(config, "config-name", NoneV)
        table == IF section # NoneV /\ DictHas(loaded, PyStr(section))
                 THEN DictGet(loaded, PyStr(section), NoneV).v ELSE loaded
        converted == ConvertLoaded(table, config)
    IN  IF ~Truthy(config_file) \/ ~Exists(path)
        THEN [raised |-> FALSE, config |-> config, out |-> <<>>]
        ELSE [raised |-> ~converted.ok,
              config |-> IF converted.ok THEN DictUpdate(config, converted.config) ELSE config,
              out |-> debug(options, "reading config-file")]

\* A variant of _update_config_from_file that raises the FileNotFoundError at
\* once instead of keeping it for the full parser.
_update_config_from_file_raising(config, options) ==
    LET config_file == DictGet(options, "config_file", NoneV)
        path == expanduser(config_file.v)
        reading == debug(options, "reading config-file")
        loaded == DictGet(FileSystem, path, <<>>)
        section == DictGet(config, "config-name", NoneV)
        table == IF section # NoneV /\ DictHas(loaded, PyStr(section))
                 THEN DictGet(loaded, PyStr(section), NoneV).v ELSE loaded
        converted == ConvertLoaded(table, config)
    IN  IF ~Truthy(config_file)
        THEN [raised |-> FALSE, config |-> config,
              out |-> debug(options, "config-file not defined or given.")]
        ELSE IF ~Exists(path)
        THEN [raised |-> TRUE, config |-> config, out |-> reading]
        ELSE IF ~converted.ok
        THEN [raised |-> TRUE, config |-> config, out |-> reading]
        ELSE [raised |-> FALSE, config |-> DictUpdate(config, converted.config),
              out |-> reading]

\* A variant of _update_config_from_file that merges the top-level keys of the
\* file whatever config-name is.
_update_config_from_file_top_level(config, options) ==
    LET config_file == DictGet(options, "config_file", NoneV)
        path == expanduser(config_file.v)
        reading == debug(options, "reading config-file")
        converted == ConvertLoaded(DictGet(FileSystem, path, <<>>), config)
    IN  IF ~Truthy(config_file)
        THEN [raised |-> FALSE, config |-> config,
              out |-> debug(options, "config-file not defined or given.")]
        ELSE IF ~Exists(path)
        THEN IF config_file # DictGet(config, "config-file", NoneV)
             THEN [raised |-> FALSE, config |-> DictSet(config, "config-file", ErrV(path)),
                   out |-> reading]
             ELSE [raised |-> FALSE, config |-> config,
                   out |-> reading \o debug(options, "ignoring.")]
        ELSE IF ~converted.ok
        THEN [raised |-> TRUE, config |-> config, out |-> reading]
        ELSE [raised |-> FALSE, config |-> DictUpdate(config, converted.config),
              out |-> reading]

\* BaseCLI._update_config_from_file after its pre-parse returned `options`:
\* [raised |-> an exception escaped, config |-> self.config afterwards,
\*  out |-> what it printed]
_update_config_from_file(config, options) ==
    LET config_file == DictGet(options, "config_file", NoneV)
        path == expanduser(config_file.v)
        reading == debug(options, "reading config-file")
        loaded == DictGet(FileSystem, path, <<>>)
        section == DictGet(config, "config-name", NoneV)
        table == IF section # NoneV /\ DictHas(loaded, PyStr(section))
                 THEN DictGet(loaded, PyStr(section), NoneV).v ELSE loaded
        converted == ConvertLoaded(table, config)
    IN  IF ~Truthy(config_file)
        THEN [raised |-> FALSE, config |-> config,
              out |-> debug(options, "config-file not defined or given.")]
        ELSE IF ~Exists(path)
        THEN IF config_file # DictGet(config, "config-file", NoneV)
             THEN [raised |-> FALSE, config |-> DictSet(config, "config-file", ErrV(path)),
                   out |-> reading]
             ELSE [raised |-> FALSE, config |-> config,
                   out |-> reading \o debug(options, "ignoring.")]
        ELSE IF ~converted.ok
        THEN [raised |-> TRUE, config |-> config, out |-> reading]
        ELSE [raised |-> FALSE, config |-> DictUpdate(config, converted.config),
              out |-> reading]

\* BaseCLI._update_config_from_options
\* A variant of _update_config_from_options that overlays the excluded keys
\* too.
_update_config_from_options_excluded_too(config, exclude, options) ==
    [i \in 1..Len(config) |->
        <<config[i][1], DictGet(options, Replace(config[i][1], "-", "_"), config[i][2])>>]

_update_config_from_options(config, exclude, options) ==
    [i \in 1..Len(config) |->
        IF SeqHas(exclude, config[i][1]) THEN config[i]
        ELSE <<config[i][1], DictGet(options, Replace(config[i][1], "-", "_"), config[i][2])>>]

-----------------------------------------------------------------------------
(* the CLI classes and the command lines *)

\* The class attribute config of the CLI subclasses: none (MinimalCLI), a
\* section name (tests/test_config.py), and a default config file, declared
\* as a string or as a path, missing or present.
Configs ==
    { <<>>,
      << <<"config-name", StrV("myapp")>> >>,
      << <<"config-file", StrV(FileB)>> >>,
      << <<"config-file", PathV(PathOf(FileB))>> >>,
      << <<"config-file", PathV(FileA)>>, <<"config-name", StrV("myapp")>> >> }

\* A CLI subclass: shape "minimal" declares no argument (tests/test_minimal.py),
\* one of them with a configuration key of its own (color);
\* "simple" an option and a required positional (the class docstring of
\* BaseCLI), "complex" registers subcommands (tests/test_basecmd.py).
Classes ==
    [shape : {"minimal", "complex"}, config : Configs]
        \cup {[shape |-> "simple", config |-> <<>>]}
        \cup {[shape |-> "minimal", config |-> << <<"color", StrV("red")>> >>]}

\* One argument of a command line: a flag, or an option with its value.
Args ==
    { <<"-h">>, <<"-H">>, <<"--md-help">>, <<"-V">>, <<"--print-config">>,
      <<"--print-url">>, <<"-X">>, <<"-v">>,
      <<"--config">>, <<"--config", FileA>>, <<"--config", FileB>>,
      <<"--completion">>, <<"--completion", "fish">>, <<"--completion", "bogus">>,
      <<"--bogus-option">>, <<"3">>,
      <<"first">>, <<"move">>, <<"--first-opt">>, <<"--first-opt", "hello">> }

\* The help texts a class gives its option: without and with the final
\* period, empty, and none at all.
HelpTexts == {"help for '--opt'", "help for '--opt'.", "", NoHelp}

\* The options of the classes of shape "declaring": a value option whose
\* default is None, a string, an int or a path (under the home directory,
\* elsewhere, or in a sibling of the home directory), a store_true flag and a
\* store_false flag.
DeclaredArgs ==
    {Action(<<"--opt">>, "opt", "store", "1", "None", default, NoneV, help) :
        default \in {NoneV, StrV("bash"), IntV(42), PathV(Home \o "/x"), PathV("/etc/x"),
                     PathV(Home \o "er/x")},
        help \in HelpTexts}
    \cup {Action(<<"--opt">>, "opt", "store_true", "0", "None", BoolV(default), BoolV(TRUE),
                  help) : default \in BOOLEAN, help \in HelpTexts}
    \cup {Action(<<"--opt">>, "opt", "store_false", "0", "None", BoolV(default), BoolV(FALSE),
                  help) : default \in BOOLEAN, help \in HelpTexts}

\* the CLI subclasses that declare one option and call add_default_to_help
DeclaringClasses == {[shape |-> "declaring", config |-> <<>>, arg |-> a] : a \in DeclaredArgs}

\* what every module that defines commands has: BaseCmd, imported from libcli,
\* and the attributes Python gives a module
BaseCmd == [name |-> "BaseCmd", value |-> "base"]
Builtins == [name |-> "__builtins__", value |-> "value"]

\* The modules of the packages, each as dir() lists it (sorted):
\* tests/wumpus1/move.py, tests/wumpus4/move.py, tests/wumpus4/shoot.py, the
\* shoot.py of the docstring of add_subcommand_modules (WumpusCmd and its
\* subclass WumpusShootCmd), a module with two commands, and a module that
\* defines no class.
MoveCommand == <<BaseCmd, [name |-> "Command", value |-> "move"], Builtins>>
Move == <<BaseCmd, [name |-> "WumpusMoveCmd", value |-> "move"], Builtins>>
Shoot == <<BaseCmd, [name |-> "WumpusShootCmd", value |-> "shoot"], Builtins>>
ShootWithBase ==
    <<BaseCmd, [name |-> "WumpusCmd", value |-> "base"],
      [name |-> "WumpusShootCmd", value |-> "shoot"], Builtins>>
MoveAndShoot ==
    <<BaseCmd, [name |-> "WumpusMoveCmd", value |-> "move"],
      [name |-> "WumpusShootCmd", value |-> "shoot"], Builtins>>
Helper == <<Builtins>>

\* the packages given to add_subcommand_modules
Packages ==
    {<<MoveCommand>>, <<Helper, MoveCommand>>, <<Move, Shoot>>, <<Move, ShootWithBase>>,
     <<MoveAndShoot>>, <<Helper, MoveAndShoot>>, <<Helper>>}

\* the CLI subclasses whose add_arguments calls add_subcommand_modules, with
\* and without prefix and suffix ("" for None)
ModulesClasses ==
    [shape : {"modules"}, config : {<<>>}, modules : Packages, prefix : {"", "Wumpus"},
     suffix : {"", "Cmd"}]

\* The CLI subclasses that declare a default config file that exists, with no
\* section name, with the name of the file's table or with another name, and
\* with no key of their own or with a key the file sets too, declared with a
\* value of the loaded type or of another type.
LoadingClasses ==
    {[shape |-> "minimal",
      config |-> << <<"config-file", PathV(file)>> >> \o name \o own] :
        file \in {FileA, FileC, FileD, FileE},
        name \in {<<>>, << <<"config-name", StrV("myapp")>> >>,
                  << <<"config-name", StrV("other")>> >>},
        own \in {<<>>, << <<"value", StrV("0")>> >>, << <<"value", IntV(0)>> >>,
                 << <<"name", IntV(0)>> >>}}

\* The CLI subclasses that load a config file and declare an option named
\* like a key of the file, --name.
NamingClasses ==
    {[shape |-> "declaring", config |-> config,
      arg |-> Action(<<"--name">>, "name", "store", "1", "None", NoneV, NoneV,
                     "the person to say hello to")] :
        config \in {<< <<"config-file", PathV(FileC)>> >>,
                    << <<"config-file", PathV(FileA)>>, <<"config-name", StrV("myapp")>> >>}}

RECURSIVE Flatten(_)
Flatten(ss) == IF ss = <<>> THEN <<>> ELSE Head(ss) \o Flatten(Tail(ss))

\* the command lines of at most MaxArgs arguments
Argvs == UNION {{Flatten(ss) : ss \in [1..n -> Args]} : n \in 0..MaxArgs}

-----------------------------------------------------------------------------
(* the state *)

VARIABLES
    cls,                   \* the CLI subclass being constructed
    argv,                  \* self.argv
    pc,                    \* the step of BaseCLI.__init__ about to run; then "main",
                           \* "done", "exit" (SystemExit) or "raise" (uncaught exception)
    config,                \* self.config
    exclude_print_config,  \* the exclude_print_config list
    options,               \* self.options: the pre-parse's namespace, then the full parse's
    parser,                \* self.parser
    add_parser,            \* whether self.add_parser is set
    logging,               \* init_logging_called of the classes and the logging levels
    calls,                 \* the public hooks called so far, each with self.config as it was
    out,                   \* what has been printed
    exit_status,           \* the exit status of SystemExit
    exited_in,             \* the step that raised SystemExit
    runs                   \* the main body and subcommand runs executed, each
                           \* subcommand with the options promoted to it

vars == <<cls, argv, pc, config, exclude_print_config, options, parser, add_parser,
          logging, calls, out, exit_status, exited_in, runs>>

\* the one CLI instance of the process
self == 1

\* sys.argv[0] and the prog keywords of the tests' init_parser
Prog(c) == c.shape

\* the CLI object as an action handler sees it through namespace.cli
Cli == [config |-> config, exclude_print_config |-> exclude_print_config]

\* the exit status while the process is running
Running == 0 - 1

Init ==
    /\ cls \in Classes
    /\ argv \in Argvs
    /\ pc = "init_config"
    /\ config = cls.config
    /\ exclude_print_config = <<>>
    /\ options = <<>>
    /\ parser = NewParser("", FALSE)
    /\ add_parser = FALSE
    /\ logging = [init_logging_called |-> FALSE, others |-> {}, level |-> "WARNING",
                  loguru |-> "DEBUG"]
    /\ calls = <<>>
    /\ out = <<>>
    /\ exit_status = Running
    /\ exited_in = ""
    /\ runs = <<>>

\* raise SystemExit(status) out of step pc
SystemExit(status, printed) ==
    /\ pc' = "exit"
    /\ exit_status' = status
    /\ exited_in' = pc
    /\ out' = out \o printed

\* A variant of Called in which the hook is called twice.
Called_twice(hook) ==
    calls' = calls \o <<[hook |-> hook, config |-> config], [hook |-> hook, config |-> config]>>

Called(hook) == calls' = Append(calls, [hook |-> hook, config |-> config])

\* BaseCLI.init_config: the base items are merged under the class's config,
\* every key is excluded from --print-config, and _update_config_from_file
\* pre-parses --verbose and --config, sets up logging and loads the file.
InitConfig ==
    /\ pc = "init_config"
    /\ LET merged == IF config # <<>> THEN DictUpdate(base_config, config) ELSE base_config
           excluded == ExcludeBase(exclude_print_config, merged)
           pre == _add_config_option(_add_verbose_option(NewParser(Prog(cls), FALSE)), merged)
           r == parse_known_args(pre, argv,
                    [config |-> merged, exclude_print_config |-> excluded])
           u == _update_config_from_file(merged, r.ns)
       IN  /\ exclude_print_config' = excluded
           /\ IF r.exit
              THEN /\ SystemExit(r.status, r.out)
                   /\ calls' = Append(calls, [hook |-> "init_config", config |-> config])
                   /\ config' = merged
                   /\ UNCHANGED <<options, logging>>
              ELSE /\ options' = r.ns
                   /\ calls' = calls \o <<[hook |-> "init_config", config |-> config],
                                          [hook |-> "init_logging", config |-> merged]>>
                   /\ logging' = init_logging(logging, DictGet(r.ns, "verbose", IntV(0)).v)
                   /\ config' = u.config
                   /\ out' = out \o u.out
                   /\ pc' = IF u.raised THEN "raise" ELSE "init_parser"
                   /\ UNCHANGED <<exit_status, exited_in>>
    /\ UNCHANGED <<cls, argv, parser, add_parser, runs>>

\* init_parser: BaseCLI's calls self.ArgumentParser(); the tests' pass prog
\* and a description; a subclass may pass any add_help.
InitParser ==
    /\ pc = "init_parser"
    /\ \E add_help \in BOOLEAN : parser' = ArgumentParser(self, Prog(cls), add_help)
    /\ Called("init_parser")
    /\ pc' = "set_defaults"
    /\ UNCHANGED <<cls, argv, config, exclude_print_config, options, add_parser, logging,
                   out, exit_status, exited_in, runs>>

\* BaseCLI.set_defaults: nothing
SetDefaults ==
    /\ pc = "set_defaults"
    /\ Called("set_defaults")
    /\ pc' = "add_arguments"
    /\ UNCHANGED <<cls, argv, config, exclude_print_config, options, parser, add_parser,
                   logging, out, exit_status, exited_in, runs>>

\* HelloCLI.add_arguments of the class docstring
SimpleArguments(p) ==
    add_argument(
        add_argument(p, Action(<<"--spanish">>, "spanish", "store_true", "0", "None",
                               BoolV(FALSE), BoolV(TRUE), "Say hello in Spanish.")),
        Action(<<>>, "name", "store", "1", "None", NoneV, NoneV,
               "The person to say hello to."))

\* add_arguments of a class of shape "declaring": the class's one option is
\* added and its default is put into its help, as CompletionOption and
\* SecondCmd do.  [ok |-> whether it returns, parser |-> the parser afterwards]
DeclareArgument(p, arg) == add_default_to_help(add_argument(p, arg), Len(p.actions) + 1)

\* add_arguments of a class of shape "modules" (tests/test_wumpus1.py,
\* tests/test_wumpus4.py)
AddModules(p, c) == add_subcommand_modules(p, c.modules, c.prefix, c.suffix)

\* add_arguments: nothing (BaseCLI), an option and a positional, an option
\* with its default in its help, self.add_subcommand_classes or
\* self.add_subcommand_modules (each instantiation is logged after the hook);
\* an exception of add_default_to_help or of an instantiation escapes the
\* constructor
AddArguments ==
    /\ pc = "add_arguments"
    /\ parser' = CASE cls.shape = "simple" -> SimpleArguments(parser)
                   [] cls.shape = "complex" -> add_subcommand_classes(parser)
                   [] cls.shape = "declaring" -> DeclareArgument(parser, cls.arg).parser
                   [] cls.shape = "modules" -> AddModules(parser, cls).parser
                   [] OTHER -> parser
    /\ add_parser' = (cls.shape \in {"complex", "modules"})
    /\ IF cls.shape = "modules"
       THEN calls' = calls \o <<[hook |-> "add_arguments", config |-> config]>>
                        \o [i \in 1..Len(AddModules(parser, cls).made) |->
                               [hook |-> AddModules(parser, cls).made[i], config |-> config]]
       ELSE Called("add_arguments")
    /\ pc' = IF \/ cls.shape = "declaring" /\ ~DeclareArgument(parser, cls.arg).ok
                \/ cls.shape = "modules" /\ ~AddModules(parser, cls).ok
             THEN "raise" ELSE "_add_common_options"
    /\ UNCHANGED <<cls, argv, config, exclude_print_config, options, logging, out,
                   exit_status, exited_in, runs>>

AddCommonOptions ==
    /\ pc = "_add_common_options"
    /\ parser' = _add_common_options(parser, add_parser, config)
    /\ pc' = "_finalize"
    /\ UNCHANGED <<cls, argv, config, exclude_print_config, options, add_parser, logging,
                   calls, out, exit_status, exited_in, runs>>

Finalize ==
    /\ pc = "_finalize"
    /\ parser' = _finalize(parser)
    /\ pc' = "autocomplete"
    /\ UNCHANGED <<cls, argv, config, exclude_print_config, options, add_parser, logging,
                   calls, out, exit_status, exited_in, runs>>

\* argcomplete.autocomplete(self.parser): returns at once when the process is
\* not run by the shell's completion
Autocomplete ==
    /\ pc = "autocomplete"
    /\ pc' = "_parse_args"
    /\ UNCHANGED <<cls, argv, config, exclude_print_config, options, parser, add_parser,
                   logging, calls, out, exit_status, exited_in, runs>>

\* self.options = self._parse_args(): the full parse, the postponed
\* file-not-found error, then _update_config_from_options
ParseArgs ==
    /\ pc = "_parse_args"
    /\ LET r == parse_args(parser, argv, Cli)
           err == DictGet(config, "config-file", NoneV)
       IN  /\ IF r.exit
              THEN /\ SystemExit(r.status, r.out)
                   /\ UNCHANGED <<config, options>>
              ELSE IF err.t = "FileNotFoundError"
              THEN /\ SystemExit(2, ParserError(parser, PyStr(err), r.ns).out)
                   /\ UNCHANGED <<config, options>>
              ELSE /\ config' = _update_config_from_options(config, exclude_print_config,
                                                            r.ns)
                   /\ options' = r.ns
                   /\ pc' = "main"
                   /\ UNCHANGED <<out, exit_status, exited_in>>
           /\ parser' = IF r.exit /\ "parser" \in DOMAIN r THEN r.parser ELSE parser
    /\ UNCHANGED <<cls, argv, exclude_print_config, add_parser, logging, calls, runs>>

\* The application's main body, as the tests write it: MinimalCLI.main and
\* SimpleCLI.main print; ComplexCLI.main prints the help and exits with
\* status 2 when no subcommand was selected, and calls options.cmd() otherwise.
Main ==
    /\ pc = "main"
    /\ LET cmd == DictGet(options, "cmd", NoneV)
       IN  IF cls.shape \in {"complex", "modules"}
           THEN IF ~Truthy(cmd)
                THEN /\ SystemExit(2, <<Printed("help", parser)>>)
                     /\ runs' = Append(runs, [name |-> "main", options |-> options])
                ELSE /\ runs' = runs \o <<[name |-> "main", options |-> options],
                                           _promote_options(cmd, options)>>
                     /\ pc' = "done"
                     /\ UNCHANGED <<out, exit_status, exited_in>>
           ELSE /\ runs' = Append(runs, [name |-> "main", options |-> options])
                /\ pc' = "done"
                /\ UNCHANGED <<out, exit_status, exited_in>>
    /\ UNCHANGED <<cls, argv, config, exclude_print_config, options, parser, add_parser,
                   logging, calls>>

Next ==
    \/ InitConfig
    \/ InitParser
    \/ SetDefaults
    \/ AddArguments
    \/ AddCommonOptions
    \/ Finalize
    \/ Autocomplete
    \/ ParseArgs
    \/ Main

Spec == Init /\ [][Next]_vars

\* the constructions of the declaring classes, on an empty command line and
\* on -h
InitDeclaring ==
    /\ cls \in DeclaringClasses
    /\ argv \in {<<>>, <<"-h">>}
    /\ pc = "init_config"
    /\ config = cls.config
    /\ exclude_print_config = <<>>
    /\ options = <<>>
    /\ parser = NewParser("", FALSE)
    /\ add_parser = FALSE
    /\ logging = [init_logging_called |-> FALSE, others |-> {}, level |-> "WARNING",
                  loguru |-> "DEBUG"]
    /\ calls = <<>>
    /\ out = <<>>
    /\ exit_status = Running
    /\ exited_in = ""
    /\ runs = <<>>

SpecDeclaring == InitDeclaring /\ [][Next]_vars

\* the constructions of the classes that load their subcommands from a package
InitModules ==
    /\ cls \in ModulesClasses
    /\ argv \in {<<>>, <<"-h">>, <<"move", "3">>, <<"shoot", "3">>}
    /\ pc = "init_config"
    /\ config = cls.config
    /\ exclude_print_config = <<>>
    /\ options = <<>>
    /\ parser = NewParser("", FALSE)
    /\ add_parser = FALSE
    /\ logging = [init_logging_called |-> FALSE, others |-> {}, level |-> "WARNING",
                  loguru |-> "DEBUG"]
    /\ calls = <<>>
    /\ out = <<>>
    /\ exit_status = Running
    /\ exited_in = ""
    /\ runs = <<>>

SpecModules == InitModules /\ [][Next]_vars

\* the constructions of the classes that load a config file, the declared
\* one or one given with --config
InitLoading ==
    /\ cls \in LoadingClasses \cup NamingClasses
    /\ argv \in {<<>>, <<"--print-config">>, <<"--config", FileC>>, <<"--config", FileB>>,
                 <<"-v">>, <<"--name", "Bob">>, <<"--name", "Bob", "--print-config">>,
                 <<"--print-config", "--name", "Bob">>}
    /\ pc = "init_config"
    /\ config = cls.config
    /\ exclude_print_config = <<>>
    /\ options = <<>>
    /\ parser = NewParser("", FALSE)
    /\ add_parser = FALSE
    /\ logging = [init_logging_called |-> FALSE, others |-> {}, level |-> "WARNING",
                  loguru |-> "DEBUG"]
    /\ calls = <<>>
    /\ out = <<>>
    /\ exit_status = Running
    /\ exited_in = ""
    /\ runs = <<>>

SpecLoading == InitLoading /\ [][Next]_vars

\* The most constructions one process makes.
MaxConstructions == 2

\* The classes and the command lines a process constructs one after another,
\* as a test session does: a class without configuration, one with a key of
\* its own, one with a section name; no flag, -v once and twice, a --config
\* without its file, and the help.
SequenceClasses ==
    {[shape |-> "minimal", config |-> declared] :
        declared \in {<<>>, << <<"color", StrV("red")>> >>,
                      << <<"config-name", StrV("myapp")>> >>}}

SequenceArgvs == {<<>>, <<"-v">>, <<"-v", "-v">>, <<"--config">>, <<"-h">>}

InitSequence ==
    /\ cls \in SequenceClasses
    /\ argv \in SequenceArgvs
    /\ pc = "init_config"
    /\ config = cls.config
    /\ exclude_print_config = <<>>
    /\ options = <<>>
    /\ parser = NewParser("", FALSE)
    /\ add_parser = FALSE
    /\ logging = [init_logging_called |-> FALSE, others |-> {}, level |-> "WARNING",
                  loguru |-> "DEBUG"]
    /\ calls = <<>>
    /\ out = <<>>
    /\ exit_status = Running
    /\ exited_in = ""
    /\ runs = <<>>

\* the constructions begun so far: init_config is logged once by each
Constructions == Len(SelectSeq(calls, LAMBDA call : call.hook = "init_config"))

\* The process goes on after a construction has ended (the application has
\* run, or the caller has caught its SystemExit or its exception) and
\* constructs the next object: the instance attributes are those of the new
\* class again, while what lives on the classes stays: the
\* exclude_print_config list of BaseCLI, which no class here redefines, and
\* each class's init_logging_called.
Construct ==
    /\ pc \in {"done", "exit", "raise"}
    /\ Constructions < MaxConstructions
    /\ \E next_cls \in SequenceClasses, next_argv \in SequenceArgvs :
            LET called == IF logging.init_logging_called THEN logging.others \cup {cls}
                          ELSE logging.others
            IN  /\ cls' = next_cls
                /\ argv' = next_argv
                /\ config' = next_cls.config
                /\ logging' = [logging EXCEPT !.init_logging_called = next_cls \in called,
                                              !.others = called \ {next_cls}]
    /\ pc' = "init_config"
    /\ options' = <<>>
    /\ parser' = NewParser("", FALSE)
    /\ add_parser' = FALSE
    /\ out' = <<>>
    /\ exit_status' = Running
    /\ exited_in' = ""
    /\ runs' = <<>>
    /\ UNCHANGED <<exclude_print_config, calls>>

NextSequence ==
    \/ InitConfig
    \/ InitParser
    \/ SetDefaults
    \/ AddArguments
    \/ AddCommonOptions
    \/ Finalize
    \/ Autocomplete
    \/ ParseArgs
    \/ Main
    \/ Construct

SpecSequence == InitSequence /\ [][NextSequence]_vars

\* The paths an application gives to hideuser: the home directory, a sibling
\* whose name starts with the name of the home directory, and directories
\* elsewhere, and paths below each of them.
Paths ==
    {directory \o below :
        directory \in {Home, Home \o "ser", Home \o "2", "/home", "/home/v", "/etc",
                       "/mnt" \o Home, "work"},
        below \in {"", "/x", "/x/y", "/.config", "/.config/app.toml"}}

\* an application about to call hideuser(path), the path held in argv
InitPaths ==
    /\ cls = [shape |-> "minimal", config |-> <<>>]
    /\ argv \in {<<path>> : path \in Paths}
    /\ pc = "hideuser"
    /\ config = <<>>
    /\ exclude_print_config = <<>>
    /\ options = <<>>
    /\ parser = NewParser("", FALSE)
    /\ add_parser = FALSE
    /\ logging = [init_logging_called |-> FALSE, others |-> {}, level |-> "WARNING",
                  loguru |-> "DEBUG"]
    /\ calls = <<>>
    /\ out = <<>>
    /\ exit_status = Running
    /\ exited_in = ""
    /\ runs = <<>>

\* hidden = BaseCLI.hideuser(path)
HideUser ==
    /\ pc = "hideuser"
    /\ out' = <<[what |-> "hideuser", prog |-> "", data |-> hideuser(argv[1])]>>
    /\ pc' = "expanduser"
    /\ UNCHANGED <<cls, argv, config, exclude_print_config, options, parser, add_parser,
                   logging, calls, exit_status, exited_in, runs>>

\* hidden.expanduser(): ~ and ~/... are expanded with the home directory, a
\* path without a leading ~ is returned as it is, and ~name for a name that is
\* no user raises RuntimeError
ExpandUser ==
    /\ pc = "expanduser"
    /\ LET hidden == out[1].data
       IN  IF StartsWith(hidden, "~") /\ hidden # "~" /\ ~StartsWith(hidden, "~/")
           THEN /\ out' = Append(out, [what |-> "RuntimeError", prog |-> "",
                                       data |-> "Could not determine home directory."])
                /\ pc' = "raise"
           ELSE /\ out' = Append(out, [what |-> "expanduser", prog |-> "",
                                       data |-> expanduser(hidden)])
                /\ pc' = "done"
    /\ UNCHANGED <<cls, argv, config, exclude_print_config, options, parser, add_parser,
                   logging, calls, exit_status, exited_in, runs>>

NextPaths == HideUser \/ ExpandUser

SpecPaths == InitPaths /\ [][NextPaths]_vars

-----------------------------------------------------------------------------
(* what the properties speak of *)

Has(tok) == \E i \in 1..Len(argv) : argv[i] = tok

LastOut == out[Len(out)]

\* the FILE of the last --config FILE of the command line, or ""
ConfigGiven ==
    LET hits == {i \in 1..(Len(argv) - 1) : argv[i] = "--config"}
    IN  IF hits = {} THEN ""
        ELSE argv[(CHOOSE i \in hits : \A j \in hits : j <= i) + 1]

\* the hooks a subclass overrides to build the full parser
ParserHooks == {"init_parser", "set_defaults", "add_arguments"}

\* the steps between init_config and the end of the full parse
BuildingSteps ==
    {"init_parser", "set_defaults", "add_arguments", "_add_common_options", "_finalize",
     "autocomplete", "_parse_args"}

\* the common options have been added to self.parser
Built ==
    \/ pc \in {"_finalize", "autocomplete", "_parse_args", "main", "done"}
    \/ pc = "exit" /\ exited_in \in {"_parse_args", "main"}

\* _finalize has run
Finalized ==
    \/ pc \in {"autocomplete", "_parse_args", "main", "done"}
    \/ pc = "exit" /\ exited_in \in {"_parse_args", "main"}

\* the full parse has returned
FullyParsed ==
    \/ pc \in {"main", "done"}
    \/ pc = "exit" /\ exited_in = "main"

Registered(flag) == FindOption(parser, flag) # 0

HasSubcommands == cls.shape = "complex"

\* the options whose action prints and ends the process
TerminalOptions ==
    {"-h", "--md-help", "-V", "--print-config", "--print-url", "-X", "--completion"}
        \cup (IF HasSubcommands THEN {"-H"} ELSE {})

NoTerminal == \A i \in 1..Len(argv) : argv[i] \notin TerminalOptions

-----------------------------------------------------------------------------
(* C1 *)

\* the items the file named by --config holds for this CLI: its config-name
\* table when the CLI declares one that the file has, else the whole file
GivenTable ==
    LET loaded == DictGet(FileSystem, expanduser(PathOf(ConfigGiven)), <<>>)
        section == DictGet(cls.config, "config-name", NoneV)
    IN  IF section # NoneV /\ DictHas(loaded, section.v)
        THEN DictGet(loaded, section.v, NoneV).v ELSE loaded

HoldsGivenTable(cfg) ==
    \A i \in 1..Len(GivenTable) : DictGet(cfg, GivenTable[i][1], NoneV) = GivenTable[i][2]

\* C1: when the command line carries --config FILE and FILE is a readable
\* config file, every value loaded from FILE is in self.config at each call of
\* init_parser, set_defaults and add_arguments, and at every step up to the
\* full parse: the file is loaded before the full parser is built.
C1_TwoPhaseParse ==
    Exists(expanduser(PathOf(ConfigGiven))) =>
        /\ \A i \in 1..Len(calls) :
                calls[i].hook \in ParserHooks => HoldsGivenTable(calls[i].config)
        /\ pc \in BuildingSteps => HoldsGivenTable(config)

\* --config FILE alone, FILE readable: add_arguments has just run and saw 42
C1_Witness ==
    /\ argv = <<"--config", FileA>>
    /\ cls.config = << <<"config-name", StrV("myapp")>> >>
    /\ pc = "_add_common_options"
    /\ Len(calls) = 5
    /\ calls[5].hook = "add_arguments"
    /\ DictGet(calls[5].config, "value", NoneV) = IntV(42)
    /\ DictGet(calls[3].config, "name", NoneV) = StrV("Rumpelstiltskin")

-----------------------------------------------------------------------------
(* C2 *)

\* --config FILE names a file that does not exist and is not the default the
\* class declares
MissingGiven ==
    LET declared == DictGet(cls.config, "config-file", NoneV)
    IN  /\ ConfigGiven # ""
        /\ ~IsOptionString(ConfigGiven)
        /\ ~Exists(expanduser(PathOf(ConfigGiven)))
        /\ (declared = NoneV \/ PathOf(declared.v) # PathOf(ConfigGiven))

RecordedError == ErrV(expanduser(PathOf(ConfigGiven)))

\* C2: when --config FILE names a missing file that is not the declared
\* default, the missing file does not end the pre-parse (only a usage error
\* does); the error is recorded in self.config while the parser is built;
\* when the full parse returns, the error is reported with exit status 2;
\* when the full parse ends the process itself, the status is the full
\* parse's own; construction never returns.
C2_DeferredFileNotFound ==
    MissingGiven =>
        /\ pc \notin {"main", "done", "raise"}
        /\ runs = <<>>
        /\ (pc = "exit" /\ exited_in = "init_config") =>
                LastOut.what = "error" /\ LastOut.data = "expected one argument"
        /\ pc \in BuildingSteps => DictGet(config, "config-file", NoneV) = RecordedError
        /\ (pc = "exit" /\ exited_in # "init_config") =>
                /\ exited_in = "_parse_args"
                /\ LET r == parse_args(parser, argv, Cli)
                   IN  IF r.exit
                       THEN exit_status = r.status /\ LastOut = r.out[Len(r.out)]
                       ELSE /\ exit_status = 2
                            /\ LastOut.what = "error"
                            /\ LastOut.data = PyStr(RecordedError)

\* --config ./cant/find/me alone: reported by the full parser, status 2
C2_Witness ==
    /\ argv = <<"--config", FileB>>
    /\ cls.config = <<>>
    /\ pc = "exit"
    /\ exited_in = "_parse_args"
    /\ exit_status = 2
    /\ LastOut.data = "[Errno 2] No such file or directory: 'cant/find/me'"
    /\ Len(calls) = 5

\* C2 as first stated: whenever --config FILE names a missing file that is not
\* the declared default, the process that the full parser ends exits with
\* status 2.
C2_AlwaysStatus2 ==
    (MissingGiven /\ pc = "exit" /\ exited_in = "_parse_args") => exit_status = 2

-----------------------------------------------------------------------------
(* C3 *)

\* C3: once the common options are installed, -h, --md-help, -v, -V,
\* --print-config, --print-url, --completion and -X are registered on the
\* root parser of every CLI; -H exactly when the CLI has subcommands; --config
\* exactly when self.config holds a config-file (declared by the class, or the
\* error recorded for a missing --config FILE).
C3_CommonOptions ==
    Built =>
        /\ \A flag \in {"-h", "--md-help", "-v", "-V", "--print-config", "--print-url",
                        "--completion", "-X"} : Registered(flag)
        /\ Registered("-H") <=> HasSubcommands
        /\ Registered("--config") <=> Truthy(DictGet(config, "config-file", NoneV))

\* a CLI without subcommands and without config-file: neither -H nor --config
C3_Witness ==
    /\ pc = "_parse_args"
    /\ cls = [shape |-> "minimal", config |-> <<>>]
    /\ argv = <<>>
    /\ Registered("--print-url")
    /\ Registered("-X")
    /\ ~Registered("-H")
    /\ ~Registered("--config")

\* C3 as first stated: all ten flags on every root parser
C3_AllTenFlags ==
    Built =>
        \A flag \in {"-h", "-H", "--md-help", "-v", "-V", "--config", "--print-config",
                     "--print-url", "--completion", "-X"} : Registered(flag)

-----------------------------------------------------------------------------
(* C4 *)

\* C4: -H/--long-help is registered on the root parser exactly when the CLI
\* has subcommands.  With subcommands, a full parse of a command line that
\* starts with -H prints the long help and exits with status 0.  Without
\* subcommands a command line holding -H never reaches main, and exits with
\* status 2 unless it also holds a terminal option.
C4_LongHelp ==
    /\ Built => /\ Registered("-H") <=> HasSubcommands
                /\ Registered("--long-help") <=> HasSubcommands
    /\ (HasSubcommands /\ argv # <<>> /\ Head(argv) = "-H") =>
            /\ pc \notin {"main", "done"}
            /\ (pc = "exit" /\ exited_in = "_parse_args") =>
                    exit_status = 0 /\ LastOut.what = "long-help"
    /\ (~HasSubcommands /\ Has("-H")) =>
            /\ pc \notin {"main", "done"}
            /\ runs = <<>>
            /\ (pc = "exit" /\ NoTerminal) => exit_status = 2

\* -H alone on a CLI without subcommands: unrecognised, status 2
C4_Witness ==
    /\ cls = [shape |-> "minimal", config |-> <<>>]
    /\ argv = <<"-H">>
    /\ pc = "exit"
    /\ exit_status = 2
    /\ LastOut.what = "error"
    /\ LastOut.data = "unrecognized arguments"

\* C4 as first stated: on a CLI without subcommands every command line
\* holding -H exits with status 2
C4_RejectedWithStatus2 ==
    (~HasSubcommands /\ Has("-H") /\ pc = "exit") => exit_status = 2

-----------------------------------------------------------------------------
(* C5 *)

\* what each terminal option prints
PrintedBy(flag) ==
    CASE flag = "-h" -> "help"
      [] flag = "-H" -> "long-help"
      [] flag = "--md-help" -> "md-help"
      [] flag = "-V" -> "version"
      [] flag = "--print-config" -> "print-config"
      [] flag = "--print-url" -> "print-url"
      [] flag = "-X" -> "debug"
      [] OTHER -> ""

\* C5: a full parse of a command line that starts with -h, --md-help, -V,
\* --print-config, --print-url or -X (or -H, with subcommands) prints that
\* option's output and exits with status 0, whatever follows; whenever the
\* full parse ends on the output of one of these actions the status is 0; and
\* in both cases construction does not return: neither main nor a
\* subcommand's run is executed.
C5_TerminalActions ==
    /\ (argv # <<>> /\ Head(argv) \in TerminalOptions \ {"--completion"}) =>
            /\ pc \notin {"main", "done"}
            /\ runs = <<>>
            /\ pc = "exit" => exited_in \in {"init_config", "_parse_args"}
            /\ (pc = "exit" /\ exited_in = "_parse_args") =>
                    exit_status = 0 /\ LastOut.what = PrintedBy(Head(argv))
    /\ (pc = "exit" /\ exited_in = "_parse_args" /\ out # <<>>
            /\ LastOut.what \in {"help", "long-help", "md-help", "version", "print-config",
                                 "print-url", "debug"}) =>
            exit_status = 0 /\ runs = <<>>

\* --print-config ends the parse before --bogus-option is looked at
C5_Witness ==
    /\ argv = <<"--print-config", "--bogus-option">>
    /\ pc = "exit"
    /\ exited_in = "_parse_args"
    /\ exit_status = 0
    /\ LastOut.what = "print-config"
    /\ runs = <<>>

-----------------------------------------------------------------------------
(* C6 *)

\* the SHELL of the --completion at argv[i]: the next argument unless it is an
\* option or there is none, and then bash
ShellAt(i) ==
    IF i < Len(argv) /\ ~IsOptionString(argv[i + 1]) THEN argv[i + 1] ELSE "bash"

\* C6: whenever the process ends on the completion generator, the generator
\* was run for the root parser's program name and for the SHELL of a
\* --completion of the command line (bash when SHELL is omitted), the exit
\* status is 0 for bash, fish and tcsh and 2 for any other name, and nothing
\* of the application has run; a full parse of a command line that starts
\* with --completion ends on the generator, run for the SHELL given there.
C6_Completion ==
    /\ (pc = "exit" /\ out # <<>> /\ LastOut.what = "completion") =>
            /\ exited_in = "_parse_args"
            /\ LastOut.prog = Prog(cls)
            /\ \E i \in 1..Len(argv) : argv[i] = "--completion" /\ LastOut.data = ShellAt(i)
            /\ exit_status = IF LastOut.data \in {"bash", "fish", "tcsh"} THEN 0 ELSE 2
            /\ runs = <<>>
    /\ (argv # <<>> /\ Head(argv) = "--completion") =>
            /\ pc \notin {"main", "done"}
            /\ (pc = "exit" /\ exited_in = "_parse_args") =>
                    LastOut.what = "completion" /\ LastOut.data = ShellAt(1)

\* --completion bogus: the generator's status 2
C6_Witness ==
    /\ argv = <<"--completion", "bogus">>
    /\ pc = "exit"
    /\ LastOut.what = "completion"
    /\ LastOut.data = "bogus"
    /\ exit_status = 2

-----------------------------------------------------------------------------
(* C7 *)

Last(seq) == seq[Len(seq)]

\* the options of the command lines that take a value
ValueOptions == {"--config", "--first-opt", "--completion"}

\* argv[i] stands as an argument of its own, not as the value of an option
Standalone(i) == i = 1 \/ argv[i - 1] \notin ValueOptions

\* The command line has a usage error: an option nobody registers; a
\* positional where none is declared; an option at the end without its value;
\* the subcommand move without its ROOM; no NAME for the CLI that requires it.
UsageError ==
    \/ Has("--bogus-option")
    \/ cls.shape = "minimal" /\ \E i \in 1..Len(argv) : argv[i] = "3" /\ Standalone(i)
    \/ argv # <<>> /\ Last(argv) \in {"--config", "--first-opt"}
    \/ HasSubcommands /\ argv # <<>> /\ Last(argv) = "move" /\ Standalone(Len(argv))
    \/ cls.shape = "simple" /\ \A i \in 1..Len(argv) : argv[i] = "-v"

\* C7: a command line with a usage error, at the top level or after a
\* subcommand name, never lets construction return, so neither main nor a
\* subcommand's run is executed; the process exits with status 2 unless the
\* command line also holds a terminal option.
C7_UsageErrors ==
    UsageError =>
        /\ pc \notin {"main", "done"}
        /\ runs = <<>>
        /\ (pc = "exit" /\ NoTerminal) => exit_status = 2 /\ LastOut.what = "error"

\* an unrecognised option after a subcommand name
C7_Witness ==
    /\ HasSubcommands
    /\ argv = <<"first", "--bogus-option">>
    /\ pc = "exit"
    /\ exited_in = "_parse_args"
    /\ exit_status = 2
    /\ LastOut.data = "unrecognized arguments"
    /\ runs = <<>>

\* C7 as first stated: every command line with a usage error exits with
\* status 2
C7_AlwaysStatus2 == (UsageError /\ pc = "exit") => exit_status = 2

-----------------------------------------------------------------------------
(* C8 *)

\* the names add_subcommand_classes registers
Subcommands == {"first", "second", "move"}

\* the subcommand a command line that parses selects: the first subcommand
\* name that is not the value of an option, or "" when there is none
Selected ==
    LET hits == {i \in 1..Len(argv) : argv[i] \in Subcommands /\ Standalone(i)}
    IN  IF hits = {} THEN "" ELSE argv[CHOOSE i \in hits : \A j \in hits : i <= j]

\* C8: on a CLI with subcommands, once the full parse has returned, the
\* options' cmd is the callback of the selected subcommand, or None when none
\* is selected; main calling cmd() runs the selected subcommand's run exactly
\* once, with the subcommand's options being the CLI's parsed options, and
\* runs no other subcommand.
C8_SubcommandDispatch ==
    (HasSubcommands /\ FullyParsed) =>
        /\ DictHas(options, "cmd")
        /\ DictGet(options, "cmd", NoneV) =
                IF Selected = "" THEN NoneV ELSE CmdV(Selected)
        /\ pc = "done" =>
                /\ Selected # ""
                /\ runs = <<[name |-> "main", options |-> options],
                            [name |-> Selected, options |-> options]>>
        /\ pc = "exit" => Selected = "" /\ Len(runs) = 1 /\ runs[1].name = "main"

\* move 3: move's run, once, with room = 3 in its options
C8_Witness ==
    /\ argv = <<"move", "3">>
    /\ pc = "done"
    /\ Len(runs) = 2
    /\ runs[2].name = "move"
    /\ DictGet(runs[2].options, "room", NoneV) = IntV(3)
    /\ DictGet(options, "cmd", NoneV) = CmdV("move")

-----------------------------------------------------------------------------
(* C9 *)

\* C9: BaseCLI.ArgumentParser builds a parser without argparse's built-in
\* help whatever add_help the caller passes, so the root parser never holds
\* argparse's own help action; and once the full parse has returned, the
\* options' cli is the CLI instance that built the parser.
C9_ParserBuilder ==
    /\ \A add_help \in BOOLEAN : ~ArgumentParser(self, Prog(cls), add_help).add_help
    /\ pc \in BuildingSteps \ {"init_parser"} =>
            /\ ~parser.add_help
            /\ \A i \in 1..Len(parser.actions) : parser.actions[i].kind # "_HelpAction"
    /\ FullyParsed => DictGet(options, "cli", NoneV) = CliV(self)

\* a full parse has returned with cli in the options
C9_Witness ==
    /\ pc = "main"
    /\ argv = <<"-v">>
    /\ DictGet(options, "cli", NoneV) = CliV(self)
    /\ ~parser.add_help
    /\ Registered("-h")

-----------------------------------------------------------------------------
(* C10 *)

LowerCaseLetters ==
    {"a", "b", "c", "d", "e", "f", "g", "h", "i", "j", "k", "l", "m", "n", "o", "p", "q",
     "r", "s", "t", "u", "v", "w", "x", "y", "z"}

\* a help string that is None, empty or suppressed, or starts with no
\* lower-case letter and ends with a period
Normalized(help) ==
    \/ help \in {NoHelp, "", SUPPRESS}
    \/ SubSeq(help, 1, 1) \notin LowerCaseLetters /\ SubSeq(help, Len(help), Len(help)) = "."

\* C10: once _finalize has run, the help of every option and positional of
\* the root parser and of every subcommand's parser, and every subcommand's
\* help in the command list, is normalized.
C10_HelpNormalization ==
    Finalized =>
        /\ \A i \in 1..Len(parser.actions) : Normalized(parser.actions[i].help)
        /\ \A c \in 1..Len(parser.choices) :
                /\ Normalized(parser.choices[c].help)
                /\ \A i \in 1..Len(parser.choices[c].parser.actions) :
                        Normalized(parser.choices[c].parser.actions[i].help)

\* the first subcommand's entry and option after _finalize
C10_Witness ==
    /\ pc = "autocomplete"
    /\ HasSubcommands
    /\ parser.choices[1].help = "Help for the 'first' command."
    /\ parser.choices[1].parser.actions[2].help = "Help for '--first-opt'."
    /\ parser.actions[Len(parser.actions)].help =
            "Print completion scripts for 'SHELL' and exit (default: 'bash')."

-----------------------------------------------------------------------------
(* C11 *)

\* C11: once the full parse has returned, every key of self.config that has
\* a same-named parsed option (dashes read as underscores), verbose included,
\* holds the parsed option's value.
C11_OptionsOverlayConfig ==
    FullyParsed =>
        \A i \in 1..Len(config) :
            LET optname == Replace(config[i][1], "-", "_")
            IN  DictHas(options, optname) => config[i][2] = DictGet(options, optname, NoneV)

-----------------------------------------------------------------------------
(* C12 *)

\* the keys init_config seeds
BaseKeys == {"config-file", "config-name", "dist-name", "verbose"}

\* value as --print-config shows it: ints and strings as they are, anything
\* else through str()
Shown(value) == IF value.t \in {"int", "bool", "str"} THEN value ELSE StrV(PyStr(value))

\* The dict --print-config is to print: the keys of self.config that are not
\* seeded (no subclass here names a key in exclude_print_config), each with
\* the same-named option's value when the namespace has one, nested under
\* the config-name section when one is set.
EffectiveConfig(namespace) ==
    LET F[i \in 0..Len(config)] ==
            IF i = 0 THEN <<>>
            ELSE IF config[i][1] \in BaseKeys THEN F[i - 1]
            ELSE Append(F[i - 1],
                        <<config[i][1],
                          Shown(DictGet(namespace, Replace(config[i][1], "-", "_"),
                                        config[i][2]))>>)
        section == DictGet(config, "config-name", NoneV)
    IN  IF section # NoneV THEN << <<section.v, DictV(F[Len(config)])>> >>
        ELSE F[Len(config)]

\* C12: whenever the process ends on the output of --print-config, what was
\* printed is exactly the keys that are neither seeded nor excluded by the
\* subclass, with their effective values, under the config-name section when
\* set: a key the subclass declares in its own config is printed.
C12_PrintsUnexcludedKeys ==
    (pc = "exit" /\ exited_in = "_parse_args" /\ out # <<>>
        /\ LastOut.what = "print-config") =>
        LastOut.data = EffectiveConfig(parse_known_args(parser, argv, Cli).ns)

-----------------------------------------------------------------------------
(* C13 *)

\* the public hooks in the order __init__ is to call them
HookOrder == <<"init_config", "init_logging", "init_parser", "set_defaults", "add_arguments">>

\* the hooks called so far, in order
HooksCalled == [i \in 1..Len(calls) |-> calls[i].hook]

\* add_arguments has returned
HooksDone ==
    \/ pc \in {"_add_common_options", "_finalize", "autocomplete", "_parse_args", "main", "done"}
    \/ pc = "exit" /\ exited_in \in {"_parse_args", "main"}

\* C13: the hooks called so far are always an initial part of init_config,
\* init_logging, init_parser, set_defaults, add_arguments (that order, once
\* each), and all five have been called when add_arguments has returned; up
\* to that point the parser holds no common option, until _finalize has run
\* its formatter and help texts are as declared, and until the full parse
\* has returned self.options is the pre-parse's namespace, without cli.
C13_HookOrder ==
    /\ Len(calls) <= Len(HookOrder)
    /\ HooksCalled = SubSeq(HookOrder, 1, Len(calls))
    /\ HooksDone => HooksCalled = HookOrder
    /\ pc \in {"init_parser", "set_defaults", "add_arguments"} => Len(calls) < Len(HookOrder)
    /\ pc \in {"set_defaults", "add_arguments", "_add_common_options"} =>
            \A flag \in {"-h", "-v", "-V", "-X", "--print-config", "--completion"} :
                ~Registered(flag)
    /\ pc \in {"_add_common_options", "_finalize"} =>
            parser.formatter_class = "HelpFormatter"
    /\ pc = "_finalize" =>
            parser.actions[FindOption(parser, "-V")].help = "print version number and exit"
    /\ pc \in BuildingSteps => ~DictHas(options, "cli")
    /\ FullyParsed => DictHas(options, "cli")

\* construction has returned after the five hooks, with the full parse's options
C13_Witness ==
    /\ pc = "main"
    /\ argv = <<"-v">>
    /\ HooksCalled = HookOrder
    /\ Registered("-h")
    /\ parser.formatter_class = formatter_class
    /\ DictHas(options, "cli")

-----------------------------------------------------------------------------
(* C14 *)

\* the declared option, first of the parser's actions
DeclaredHelp == parser.actions[1].help

\* the default as the annotation is to show it: a path under the home
\* directory with ~ for the home directory, a flag's default as True/False,
\* anything else as str() gives it
ShownDefault(arg) ==
    LET text == PyStr(arg.default)
    IN  IF arg.default.t = "Path" /\ StartsWith(text, Home \o "/")
        THEN "~" \o SubSeq(text, Len(Home) + 1, Len(text))
        ELSE text

Annotation(arg) == " (default: '" \o ShownDefault(arg) \o "')"

\* help without its final period, if it has one
Stem(help) ==
    IF help # "" /\ SubSeq(help, Len(help), Len(help)) = "."
    THEN SubSeq(help, 1, Len(help) - 1) ELSE help

\* the cases the property speaks of: a help text, a default shown by its
\* string form, and no path outside the home directory that only shares its
\* prefix
Annotated(arg) ==
    /\ arg.help # NoHelp
    /\ arg.default # NoneV
    /\ arg.const # BoolV(FALSE)
    /\ arg.default # PathV(Home \o "er/x")

\* C14: for an option declared with a help text and annotated by
\* add_default_to_help, the help after _finalize is the declared text without
\* its final period, then (default: 'V'), then one period, whether or not the
\* declared text ended with a period; V shows a path under the home directory
\* with ~ in place of the home directory; when the default is None,
\* add_default_to_help leaves the help as declared.
C14_DefaultInHelp ==
    /\ (HooksDone /\ cls.arg.default = NoneV) =>
            (IF pc \in {"_add_common_options", "_finalize"}
             THEN DeclaredHelp = cls.arg.help
             ELSE DeclaredHelp = _normalize_help_text(cls.arg.help))
    /\ (pc \in {"_add_common_options", "_finalize"} /\ Annotated(cls.arg)) =>
            DeclaredHelp \in {Stem(cls.arg.help) \o Annotation(cls.arg),
                              Stem(cls.arg.help) \o Annotation(cls.arg) \o "."}
    /\ (Finalized /\ Annotated(cls.arg)) =>
            /\ EndsWith(DeclaredHelp, Annotation(cls.arg) \o ".")
            /\ ~EndsWith(DeclaredHelp, "..")
            /\ Len(DeclaredHelp) = Len(Stem(cls.arg.help)) + Len(Annotation(cls.arg)) + 1
            /\ SubSeq(DeclaredHelp, 2, Len(DeclaredHelp)) =
                    SubSeq(Stem(cls.arg.help) \o Annotation(cls.arg) \o ".", 2,
                           Len(DeclaredHelp))

\* a declared help ending with a period, a default path under the home
\* directory: one period, after the annotation
C14_Witness ==
    /\ pc = "main"
    /\ cls.arg.help = "help for '--opt'."
    /\ cls.arg.default = PathV(Home \o "/x")
    /\ DeclaredHelp = "Help for '--opt' (default: '~/x')."

-----------------------------------------------------------------------------
(* C15 *)

RECURSIVE CountOf(_, _)
\* how many of the tokens are in the set
CountOf(tokens, set) ==
    IF tokens = <<>> THEN 0
    ELSE (IF Head(tokens) \in set THEN 1 ELSE 0) + CountOf(Tail(tokens), set)

\* the count of -v flags on the command line
Verbosity == CountOf(argv, {"-v", "--verbose"})

\* the levels named for -v, -vv, -vvv
DocumentedLevels == <<"INFO", "DEBUG", "TRACE">>

\* C15: once init_logging has run for a command line with n >= 1 flags -v, the
\* level of the standard logging module and the level of loguru are both the
\* n-th of INFO, DEBUG, TRACE, the last one for every n beyond three.
C15_VerbosityLevels ==
    (logging.init_logging_called /\ Verbosity >= 1) =>
        LET level == DocumentedLevels[IF Verbosity < 3 THEN Verbosity ELSE 3]
        IN  logging.level = level /\ logging.loguru = level

-----------------------------------------------------------------------------
(* C16 *)

\* the names instantiated by add_arguments, in order
Instantiated == [i \in 1..(Len(calls) - Len(HookOrder)) |-> calls[Len(HookOrder) + i].hook]

\* whether a name of a module is one to instantiate: Command when neither
\* prefix nor suffix is given, else a name that begins with the prefix, ends
\* with the suffix and is longer than the bare prefix+suffix
Matches(name, prefix, suffix) ==
    IF prefix = "" /\ suffix = "" THEN name = "Command"
    ELSE StartsWith(name, prefix) /\ EndsWith(name, suffix) /\ name # prefix \o suffix

RECURSIVE MatchingNames(_, _, _)
\* the matching names of the modules, module by module
MatchingNames(modules, prefix, suffix) ==
    IF modules = <<>> THEN <<>>
    ELSE LET names == [i \in 1..Len(Head(modules)) |-> Head(modules)[i].name]
         IN  SelectSeq(names, LAMBDA name : Matches(name, prefix, suffix))
                 \o MatchingNames(Tail(modules), prefix, suffix)

\* the subcommand a class registers, "" for a class that registers none
Registers(name) ==
    CASE name \in {"Command", "WumpusMoveCmd"} -> "move"
      [] name = "WumpusShootCmd" -> "shoot"
      [] OTHER -> ""

\* C16: when add_arguments has called add_subcommand_modules, it has returned,
\* the classes instantiated are exactly the matching names of the modules,
\* module by module and each once (Command without prefix and suffix, else
\* the names with the prefix and the suffix other than the bare prefix+suffix),
\* and the subcommands registered are those of the instantiated classes; a
\* module without a matching name adds nothing.
C16_ModulesRegistered ==
    (cls.shape = "modules" /\ pc \notin {"init_config", "init_parser", "set_defaults",
                                         "add_arguments"}
        /\ ~(pc = "exit" /\ exited_in = "init_config")) =>
        /\ pc # "raise"
        /\ Instantiated = MatchingNames(cls.modules, cls.prefix, cls.suffix)
        /\ [i \in 1..Len(parser.choices) |-> parser.choices[i].name] =
                SelectSeq([i \in 1..Len(Instantiated) |-> Registers(Instantiated[i])],
                          LAMBDA name : name # "")

\* the same, for the packages that satisfy what add_subcommand_modules asks
\* of them without prefix and suffix: every module has a Command
C16_ModulesRegisteredWithCommand ==
    ((cls.prefix = "" /\ cls.suffix = "") =>
        \A i \in 1..Len(cls.modules) : \E j \in 1..Len(cls.modules[i]) :
            cls.modules[i][j].name = "Command")
    => C16_ModulesRegistered

-----------------------------------------------------------------------------
(* C17 *)

\* the subcommands of the CLI with subcommands, in the order add_arguments
\* registers them
RegistrationOrder == <<"first", "second", "move">>

\* what has been printed, the lines of the logger apart
Helps == SelectSeq(out, LAMBDA line : line.what # "DEBUG")

\* what -H and --md-help print on a CLI with subcommands: one help per parser,
\* the root first, then each subcommand once in registration order, each the
\* help of its parser under its title
HelpOfAll(atx) ==
    /\ Len(Helps) = 1 + Len(RegistrationOrder)
    /\ Helps[1].prog = parser.prog
    /\ Helps[1].data = format_help(parser)
    /\ Helps[1].title = (IF atx THEN "# " \o parser.prog ELSE " " \o upper(parser.prog) \o " ")
    /\ \A i \in 1..Len(RegistrationOrder) :
            LET prog == parser.prog \o " " \o RegistrationOrder[i]
            IN  /\ parser.choices[i].name = RegistrationOrder[i]
                /\ Helps[i + 1].prog = prog
                /\ Helps[i + 1].data = format_help(parser.choices[i].parser)
                /\ Helps[i + 1].title = (IF atx THEN "## " \o prog ELSE " " \o upper(prog) \o " ")

\* C17: when -H/--long-help is acted on, the help of the root parser is
\* printed first, then the help of each subcommand once, in registration
\* order, and the process exits with status 0; --md-help on a CLI with
\* subcommands prints the same under Markdown headings, # for the root and ##
\* for each subcommand; a full parse of a command line that starts with one of
\* them acts on it.
C17_LongHelpOrder ==
    /\ (pc = "exit" /\ Helps # <<>> /\ Helps[1].what = "long-help") =>
            exit_status = 0 /\ exited_in = "_parse_args" /\ HasSubcommands /\ HelpOfAll(FALSE)
            /\ \A i \in 1..Len(Helps) : Helps[i].what = "long-help"
    /\ (pc = "exit" /\ Helps # <<>> /\ Helps[1].what = "md-help" /\ HasSubcommands) =>
            exit_status = 0 /\ exited_in = "_parse_args" /\ HelpOfAll(TRUE)
            /\ \A i \in 1..Len(Helps) : Helps[i].what = "md-help"
    /\ (HasSubcommands /\ argv # <<>> /\ Head(argv) \in {"-H", "--long-help", "--md-help"}
            /\ (pc \in {"main", "done"} \/ (pc = "exit" /\ exited_in # "init_config"))) =>
                /\ pc = "exit" /\ exited_in = "_parse_args" /\ exit_status = 0
                /\ Helps[1].what = (IF Head(argv) = "--md-help" THEN "md-help" ELSE "long-help")

\* -H on the CLI with subcommands: four helps, the root's first
C17_Witness ==
    /\ pc = "exit"
    /\ argv = <<"-H">>
    /\ exit_status = 0
    /\ [i \in 1..Len(out) |-> out[i].title] =
            <<" COMPLEX ", " COMPLEX FIRST ", " COMPLEX SECOND ", " COMPLEX MOVE ">>

-----------------------------------------------------------------------------
(* C18 *)

\* the formatter of each parser of the tree, the root first
Formatters(p) ==
    <<p.formatter_class>> \o [i \in 1..Len(p.choices) |-> p.choices[i].parser.formatter_class]

\* the tree without its formatters
Unformatted(p) ==
    [p EXCEPT !.formatter_class = "",
              !.choices = [i \in 1..Len(@) |-> [@[i] EXCEPT !.parser.formatter_class = ""]]]

\* a parser's option set and defaults: its actions without their help texts
OptionSet(p) ==
    [prog |-> p.prog, defaults |-> p.defaults,
     actions |-> [i \in 1..Len(p.actions) |-> [p.actions[i] EXCEPT !.help = ""]]]

\* the option set and defaults of each parser of the tree
OptionSets(p) ==
    <<OptionSet(p)>> \o
        [i \in 1..Len(p.choices) |-> [name |-> p.choices[i].name,
                                      parser |-> OptionSet(p.choices[i].parser)]]

\* the steps after the normalization pass
AfterFinalize == {"autocomplete", "_parse_args", "main"}

\* the step is the handler of --md-help
MarkdownHelpTaken == pc = "_parse_args" /\ pc' = "exit" /\ out' # <<>> /\ out'[Len(out')].what = "md-help"

\* C18 as stated: after the normalization pass no step changes the parser tree
C18_NeverMutated == [][(pc \in AfterFinalize) => (parser' = parser)]_vars

\* C18: the normalization pass changes help texts and formatters only; after
\* it no step changes a parser's option set, defaults or help texts, and the
\* only step that changes a formatter is the handler of --md-help, which,
\* before it prints and exits, sets the root's formatter to
\* MarkdownHelpFormatter on a CLI without subcommands and the formatter of the
\* root and of every subparser to RawDescriptionHelpFormatter on a CLI with
\* subcommands.
C18_ParserTreeFrame ==
    [][/\ pc = "_finalize" => OptionSets(parser') = OptionSets(parser)
       /\ pc \in AfterFinalize =>
            /\ Unformatted(parser') = Unformatted(parser)
            /\ IF MarkdownHelpTaken
               THEN Formatters(parser') =
                        IF HasSubcommands
                        THEN [i \in 1..(1 + Len(parser.choices)) |-> "RawDescriptionHelpFormatter"]
                        ELSE <<"MarkdownHelpFormatter">>
               ELSE Formatters(parser') = Formatters(parser)]_vars

\* --md-help on a CLI with subcommands has replaced the formatters the
\* normalization pass had installed
C18_Witness ==
    /\ pc = "exit"
    /\ exited_in = "_parse_args"
    /\ HasSubcommands
    /\ out # <<>> /\ LastOut.what = "md-help"
    /\ Len(parser.choices) = 3
    /\ \A i \in 1..4 : Formatters(parser)[i] = "RawDescriptionHelpFormatter"

-----------------------------------------------------------------------------
(* C19 *)

\* the path is the home directory or below it
InsideHome(path) == path = Home \/ StartsWith(path, Home \o "/")

\* C19: for every path p, hideuser(p) is p with the home directory replaced by
\* ~ when p is inside the home directory and p itself when it is not (a
\* sibling of the home directory whose name starts with the home directory's
\* name included), and expanding the tilde of hideuser(p) returns p.
C19_HideUserRoundTrip ==
    /\ (pc \in {"expanduser", "raise", "done"} /\ out # <<>> /\ out[1].what = "hideuser") =>
            out[1].data = (IF InsideHome(argv[1])
                           THEN "~" \o SubSeq(argv[1], Len(Home) + 1, Len(argv[1]))
                           ELSE argv[1])
    /\ (pc \in {"raise", "done"} /\ out # <<>> /\ out[1].what = "hideuser") =>
            pc = "done" /\ out[2].what = "expanduser" /\ out[2].data = argv[1]

\* the same for the paths that do not merely share the home directory's prefix
C19_HideUserRoundTripButSiblings ==
    (InsideHome(argv[1]) \/ ~StartsWith(argv[1], Home)) => C19_HideUserRoundTrip

-----------------------------------------------------------------------------
(* C20 *)

\* the config-file the class declares, None if it declares none
Declared == DictGet(cls.config, "config-file", NoneV)

\* the class declares a default config-file that does not exist, and the
\* command line has no --config
MissingDeclared ==
    /\ Declared # NoneV
    /\ ~Exists(expanduser(PathOf(Declared.v)))
    /\ \A i \in 1..Len(argv) : argv[i] # "--config"

\* C20: when the class declares a default config-file that does not exist,
\* as a string or as a path, and no --config is given, then after init_config
\* the configuration holds what the class declared over the base values
\* (config-file still the declared default, no error recorded), no
\* file-not-found error is ever printed, and on an empty command line the
\* construction completes and the full parse returns.
C20_MissingDefaultIgnored ==
    (MissingDeclared /\ pc # "init_config") =>
        /\ DictGet(config, "config-file", NoneV) = Declared
        /\ \A i \in 1..Len(cls.config) :
                DictGet(config, cls.config[i][1], NoneV) = cls.config[i][2]
        /\ \A i \in 1..Len(config) :
                DictHas(cls.config, config[i][1]) \/ config[i][1] \in BaseKeys
        /\ \A i \in 1..Len(out) :
                out[i].what = "error" =>
                    out[i].data # PyStr(ErrV(expanduser(PathOf(Declared.v))))
        /\ argv = <<>> => (pc = "exit" => exited_in = "main")

\* the same for the classes that declare the default as a path
C20_MissingPathDefaultIgnored == Declared.t = "Path" => C20_MissingDefaultIgnored

-----------------------------------------------------------------------------
(* C21 *)

\* the configuration before the file is loaded: the class's over the base
Seeded == DictUpdate(base_config, cls.config)

\* the file the pre-parse names: the one given with --config, else the
\* declared default
FileToLoad == IF ConfigGiven # "" THEN expanduser(PathOf(ConfigGiven)) ELSE Declared.v

\* the keys of the file that are to be merged: those of the table named by
\* config-name when there is such a table, else those of the top level
SelectedItems ==
    LET loaded == DictGet(FileSystem, FileToLoad, <<>>)
        section == DictGet(Seeded, "config-name", NoneV)
        tables == {i \in 1..Len(loaded) : section # NoneV /\ loaded[i][1] = section.v}
    IN  IF tables = {} THEN loaded ELSE loaded[CHOOSE i \in tables : TRUE][2].v

\* init_config has returned or raised after reading a file that exists
Loaded ==
    /\ pc # "init_config"
    /\ ~(pc = "exit" /\ exited_in = "init_config")
    /\ Exists(FileToLoad)

\* C21: after loading a file that exists, the keys of the configuration are
\* the keys it had before together with the keys of the selected table (the
\* table named by config-name when the file has it, else the top level); a
\* key the selection does not have keeps its value, a key only the selection
\* has holds the loaded value, and no key is removed (when the load raises,
\* the configuration is as before).  The values are those of the load until
\* the full parse returns and the options are laid over them.
C21_SectionSelection ==
    Loaded =>
        IF pc = "raise" THEN config = Seeded
        ELSE /\ \A i \in 1..Len(Seeded) : DictHas(config, Seeded[i][1])
             /\ \A i \in 1..Len(SelectedItems) : DictHas(config, SelectedItems[i][1])
             /\ \A i \in 1..Len(config) :
                    LET key == config[i][1]
                    IN  /\ DictHas(Seeded, key) \/ DictHas(SelectedItems, key)
                        /\ (~FullyParsed /\ ~DictHas(SelectedItems, key)) =>
                                config[i][2] = DictGet(Seeded, key, NoneV)
                        /\ (~FullyParsed /\ ~DictHas(Seeded, key)) =>
                                config[i][2] = DictGet(SelectedItems, key, NoneV)

\* the file with a top-level name beside its [myapp] table, config-name myapp:
\* the table's value is merged, the top-level name is not
C21_Witness ==
    /\ pc = "init_parser"
    /\ cls.config = << <<"config-file", PathV(FileD)>>, <<"config-name", StrV("myapp")>> >>
    /\ argv = <<>>
    /\ DictGet(config, "value", NoneV) = IntV(42)
    /\ ~DictHas(config, "name")
    /\ DictHas(config, "verbose")

-----------------------------------------------------------------------------
(* C22 *)

\* init_config has returned or raised, and the full parse has not yet
\* overlaid the options
Merging == Loaded /\ pc \in {"raise", "init_parser", "set_defaults", "add_arguments"}

\* each key the configuration had before the load has a value of the type it
\* had, and each key only the file has holds the loaded value
TypesKept ==
    /\ \A i \in 1..Len(Seeded) :
            DictGet(config, Seeded[i][1], NoneV).t = Seeded[i][2].t
    /\ \A i \in 1..Len(SelectedItems) :
            LET key == SelectedItems[i][1]
            IN  IF DictHas(Seeded, key)
                THEN \/ DictGet(Seeded, key, NoneV).t # SelectedItems[i][2].t
                     \/ DictGet(config, key, NoneV) = SelectedItems[i][2]
                ELSE DictGet(config, key, NoneV) = SelectedItems[i][2]

\* C22: the merge of a loaded file completes for every key, also for a key
\* whose value before the load is the seeded None; after it each key the
\* configuration had before has a value of the type it had before, a loaded
\* value of that type is taken as it is, and a key only the file has holds
\* the loaded value.
C22_LoadedValuesConverted == Merging => (pc # "raise" /\ TypesKept)

\* the same, where the file sets no key that is seeded with None and no value
\* that cannot be converted: the merge completes only then
C22_LoadedValuesConvertedButNone ==
    Merging =>
        /\ pc # "raise" => TypesKept
        /\ pc = "raise" <=>
                \E i \in 1..Len(SelectedItems) :
                    /\ DictHas(Seeded, SelectedItems[i][1])
                    /\ ~TypeCall(DictGet(Seeded, SelectedItems[i][1], NoneV).t,
                                 SelectedItems[i][2]).ok

-----------------------------------------------------------------------------
(* C23 *)

\* C23: the step that overlays the parsed options (the full parse, when it
\* returns) leaves the keys of the configuration as they are, in their order;
\* it leaves the value of every excluded key unchanged, the four seeded keys
\* being excluded; it leaves the value of a key that is not excluded unchanged
\* when the options have no attribute of its name, and sets it to that
\* attribute when they have.
C23_OverlayFrame ==
    [][(pc = "_parse_args") =>
            /\ DictKeys(config') = DictKeys(config)
            /\ \A key \in BaseKeys : SeqHas(exclude_print_config, key)
            /\ \A i \in 1..Len(config) :
                    LET optname == Replace(config[i][1], "-", "_")
                    IN  IF SeqHas(exclude_print_config, config[i][1])
                        THEN config'[i] = config[i]
                        ELSE IF pc' = "main" /\ DictHas(options', optname)
                        THEN config'[i][2] = DictGet(options', optname, NoneV)
                        ELSE config'[i] = config[i]]_vars

\* --name Bob over the name loaded from the file, --verbose left alone
C23_Witness ==
    /\ pc = "main"
    /\ argv = <<"--name", "Bob">>
    /\ DictGet(config, "name", NoneV) = StrV("Bob")
    /\ DictGet(config, "value", NoneV) = IntV(42)
    /\ DictGet(config, "verbose", NoneV) = IntV(0)

-----------------------------------------------------------------------------
(* C24 *)

\* the pre-parse took --config FILE from the command line and the file was
\* loaded: init_config returned, and the construction went on to build the
\* full parser
GivenLoaded ==
    /\ Built
    /\ ConfigGiven # ""
    /\ Exists(expanduser(PathOf(ConfigGiven)))

\* the full parse ended the process over arguments it does not know
Unrecognized ==
    /\ pc = "exit"
    /\ exited_in = "_parse_args"
    /\ exit_status = 2
    /\ LastOut.what = "error"
    /\ StartsWith(LastOut.data, "unrecognized arguments")

\* C24: whenever the pre-parse has taken --config FILE from the command line
\* and loaded the file, the full parser has a --config option, and the full
\* parse does not end over unrecognized arguments unless the command line
\* has another argument the parser does not know.
C24_ParsersAgree ==
    GivenLoaded =>
        /\ Registered("--config")
        /\ (Unrecognized => \E i \in 1..Len(argv) :
                /\ argv[i] \notin {"--config", ConfigGiven}
                /\ FindOption(parser, argv[i]) = 0)

\* the two parsers agree when the class declares a default config-file
C24_ParsersAgreeWhenDeclared == (GivenLoaded /\ Truthy(Declared)) => Registered("--config")

-----------------------------------------------------------------------------
(* C25 *)

\* the keys of the configuration the class under construction declares
OwnKeys == {cls.config[i][1] : i \in 1..Len(cls.config)}

NoDuplicates(list) == \A i, j \in 1..Len(list) : list[i] = list[j] => i = j

\* C25: after any sequence of constructions the exclude_print_config the
\* class under construction sees holds only the seeded keys and the keys the
\* class itself declares, each once.
C25_Isolated ==
    /\ \A i \in 1..Len(exclude_print_config) :
            exclude_print_config[i] \in BaseKeys \cup OwnKeys
    /\ NoDuplicates(exclude_print_config)

\* what does hold across constructions: no key is listed twice, and the list
\* only grows
C25_ListGrowsWithoutDuplicates ==
    [][/\ NoDuplicates(exclude_print_config')
       /\ \A i \in 1..Len(exclude_print_config) :
            exclude_print_config'[i] = exclude_print_config[i]]_vars

-----------------------------------------------------------------------------
(* C26 *)

\* every construction of the process so far has been of the class under
\* construction (init_config is logged with the class's declared config)
SameClass == \A i \in 1..Len(calls) : calls[i].hook = "init_config" => calls[i].config = cls.config

\* some construction of the process has reached init_logging
LoggingReached == \E i \in 1..Len(calls) : calls[i].hook = "init_logging"

Levels == <<logging.level, logging.loguru>>

\* C26 as stated: across constructions of one class the first construction
\* configures logging, and the init_config of every later one leaves the
\* levels as they are.
C26_FirstConfigures ==
    [][(pc = "init_config" /\ SameClass) =>
            IF Constructions = 0 THEN logging'.init_logging_called
            ELSE Levels' = Levels]_vars

\* C26: across constructions of one class, logging is configured by the
\* first construction whose pre-parse returns, with the levels of its -v
\* count; a construction whose pre-parse ends the process leaves logging
\* alone, and so does every construction after logging has been configured,
\* whatever its -v count.
C26_ConfiguredOnce ==
    [][(pc = "init_config" /\ SameClass) =>
            IF LoggingReached
            THEN logging' = logging /\ logging.init_logging_called
            ELSE IF pc' = "exit"
            THEN logging' = logging /\ ~logging.init_logging_called
            ELSE /\ logging'.init_logging_called
                 /\ Levels' = <<(<<"WARNING", "INFO", "DEBUG">>)[Verbosity + 1],
                                (<<"INFO", "DEBUG", "TRACE">>)[Verbosity + 1]>>]_vars

\* the second construction of a class, with -v -v, after a first one with -v
\* has set the levels
C26_Witness ==
    /\ Constructions = 2
    /\ SameClass
    /\ pc = "init_parser"
    /\ argv = <<"-v", "-v">>
    /\ Levels = <<"INFO", "DEBUG">>

-----------------------------------------------------------------------------
(* C27 *)

\* the process has ended on the output of --print-config
PrintedConfig ==
    /\ pc = "exit"
    /\ exited_in = "_parse_args"
    /\ out # <<>>
    /\ LastOut.what = "print-config"

\* the command line without its --print-config, and the part of it that
\* stands before the first --print-config
OtherOptions == SelectSeq(argv, LAMBDA tok : tok # "--print-config")

OptionsBefore ==
    SubSeq(argv, 1, (CHOOSE i \in 1..Len(argv) :
                        /\ argv[i] = "--print-config"
                        /\ \A j \in 1..(i - 1) : argv[j] # "--print-config") - 1)

\* C27: what --print-config prints is what it prints for the other options
\* of the command line, wherever --print-config stands among them.
C27_PositionIndependent ==
    PrintedConfig =>
        LastOut.data = PrintConfig(Cli, parse_known_args(parser, OtherOptions, Cli).ns)

\* what it does print: the values of the options that stand before it
C27_PrintsOptionsBefore ==
    PrintedConfig =>
        LastOut.data = PrintConfig(Cli, parse_known_args(parser, OptionsBefore, Cli).ns)

-----------------------------------------------------------------------------
(* C28 *)

\* the last --config FILE of the command line names a file that does not exist
NamesMissing ==
    /\ ConfigGiven # ""
    /\ ~IsOptionString(ConfigGiven)
    /\ ~Exists(expanduser(PathOf(ConfigGiven)))

\* every --config of the command line has its FILE, so that the pre-parse
\* returns
ConfigsHaveFiles ==
    \A i \in 1..Len(argv) :
        argv[i] = "--config" => (i < Len(argv) /\ ~IsOptionString(argv[i + 1]))

\* argv[i] is a terminal option that the full parse reaches: only -v and
\* --config FILE stand before it, and a --completion has no shell or one
\* that is known
TerminalReached(i) ==
    /\ argv[i] \in TerminalOptions
    /\ \A j \in 1..(i - 1) :
            \/ argv[j] \in {"-v", "--config"}
            \/ j > 1 /\ argv[j - 1] = "--config"
    /\ argv[i] = "--completion" =>
            \/ i = Len(argv)
            \/ IsOptionString(argv[i + 1])
            \/ argv[i + 1] \in {"bash", "fish", "tcsh"}

-----------------------------------------------------------------------------
(* C29 *)

\* the options that are to stay out of the help
HiddenOptions == {"-X", "--md-help"}

\* the option strings the help output lists
Listed(p) == UNION {{format_help(p)[i][1][k] : k \in 1..Len(format_help(p)[i][1])} :
                        i \in 1..Len(format_help(p))}

\* C29: _finalize gives every option the normalization of its help;
\* normalizing that help again returns it unchanged, and a help that is
\* absent, empty or suppressed is returned as it is; so from _finalize on the
\* help of -X and of --md-help is still suppressed and the help output lists
\* neither.
C29_NormalizationIdempotent ==
    [][/\ (pc = "_finalize") =>
            /\ Len(parser'.actions) = Len(parser.actions)
            /\ \A i \in 1..Len(parser.actions) :
                    LET before == parser.actions[i].help
                        after == parser'.actions[i].help
                    IN  /\ after = _normalize_help_text(before)
                        /\ _normalize_help_text(after) = after
                        /\ before \in {NoHelp, "", SUPPRESS} => after = before
       /\ Finalized' =>
            \A flag \in HiddenOptions :
                /\ FindOption(parser', flag) # 0
                /\ parser'.actions[FindOption(parser', flag)].help = SUPPRESS
                /\ flag \notin Listed(parser')]_vars

\* after _finalize: the declared help normalized, a second normalization
\* changing nothing, an option without help still without, -X still hidden
C29_Witness ==
    /\ pc = "autocomplete"
    /\ cls.arg.help = "help for '--opt'."
    /\ cls.arg.default = NoneV
    /\ DeclaredHelp = "Help for '--opt'."
    /\ _normalize_help_text(DeclaredHelp) = DeclaredHelp
    /\ parser.actions[FindOption(parser, "-X")].help = SUPPRESS
    /\ "-h" \in Listed(parser)
    /\ "-X" \notin Listed(parser)

-----------------------------------------------------------------------------
(* C30 *)

\* add_arguments, and with it add_default_to_help, has been left
Annotating == pc \notin {"init_config", "init_parser", "set_defaults", "add_arguments"}

\* the value the annotation is to show: the negation of the default for a
\* flag whose constant is False, else the default as C14 shows it
ShownValue(arg) ==
    IF arg.const = BoolV(FALSE) THEN PyStr(BoolV(~arg.default.v)) ELSE ShownDefault(arg)

Within(text, part) ==
    \E i \in 1..(Len(text) - Len(part) + 1) : SubSeq(text, i, i + Len(part) - 1) = part

HelpAnnotated ==
    /\ pc # "raise"
    /\ DeclaredHelp # NoHelp
    /\ Within(DeclaredHelp, " (default: '" \o ShownValue(cls.arg) \o "')")

\* the option has a default to show (the path that only shares the prefix
\* of the home directory is the matter of C19)
HasDefault == cls.arg.default \notin {NoneV, PathV(Home \o "er/x")}

\* C30: add_default_to_help returns for every option whose default is not
\* None, declared with a help text or without, and the help is then a string
\* holding the annotation with the value to show.
C30_CompletesWithoutHelp == (Annotating /\ HasDefault) => HelpAnnotated

\* what holds: it returns and annotates when the option was declared with a
\* help text, be it empty
C30_CompletesWithHelp ==
    (Annotating /\ HasDefault /\ cls.arg.help # NoHelp) => HelpAnnotated

====
